---- MODULE Spec2Model ----
(***************************************************************************)
(* Model of the generated-docs publishing pipeline: the import script      *)
(* (title/description extraction, slug generation, metadata merge) and the *)
(* build script (rename-on-mismatch, README.txt generation).               *)
(*                                                                         *)
(* A JavaScript string is modelled as a sequence of one-character strings, *)
(* so "ab" is <<"a", "b">>.  Regular expressions are modelled by what they *)
(* match on such sequences.                                                *)
(***************************************************************************)
EXTENDS Integers, Sequences, FiniteSets, TLC

VARIABLES
    fnIn,        \* input of the pure function under test
    fnParts,     \* the names of the chunks a document input was put together from
    fnKind,      \* kind argument of the pure function under test
    fnOut,       \* its result (NONE before it ran, or when it returned null)
    fnDone,      \* TRUE once the function was applied
    importDir,   \* import/ : filename -> content
    projects,    \* projects/ : directory name -> directory
    builds,      \* builds/ : directory name -> build directory
    run,         \* "idle", "import" or "build": the script that is running
    queue,       \* the files / project directories the running script has left
    env,         \* IMPORT_TITLE of the running import (NONE when unset)
    last,        \* what the step just taken did, if it was processImport or buildProject
    drops,       \* number of files dropped into import/ so far
    edits,       \* number of hand edits of project.json so far
    cwd,         \* the files of the working directory next to import/, projects/, builds/
    done,        \* what each step of the run in progress (or just over) did, in order
    pub,         \* publish.sh: its position and the commands it ran so far
    dep          \* deploy-projects.sh: its position, what it uploaded, the cache purge

vars == <<fnIn, fnParts, fnKind, fnOut, fnDone, importDir, projects, builds,
          run, queue, env, last, drops, edits, cwd, done, pub, dep>>

fnVars == <<fnIn, fnParts, fnKind, fnOut, fnDone>>
fsVars == <<importDir, projects, builds, run, queue, env, last, drops, edits, cwd, done>>
shVars == <<pub, dep>>

\* null / undefined / absent: a sequence that is no string of characters
NONE == <<"<none>">>

-----------------------------------------------------------------------------
(* Characters and JavaScript string primitives *)

Lowers == <<"a","b","c","d","e","f","g","h","i","j","k","l","m",
            "n","o","p","q","r","s","t","u","v","w","x","y","z">>
Uppers == <<"A","B","C","D","E","F","G","H","I","J","K","L","M",
            "N","O","P","Q","R","S","T","U","V","W","X","Y","Z">>
Digits == {"0","1","2","3","4","5","6","7","8","9"}

Range(s) == {s[i] : i \in 1..Len(s)}

IsLower(c) == c \in Range(Lowers)
IsUpper(c) == c \in Range(Uppers)
IsDigit(c) == c \in Digits
IsAlnum(c) == IsLower(c) \/ IsUpper(c) \/ IsDigit(c)
\* \w of a JavaScript regular expression: [A-Za-z0-9_]
IsWordChar(c) == IsAlnum(c) \/ c = "_"
\* \s of a JavaScript regular expression (the members the model uses)
SpaceChars == {" ", "\t", "\n"}
IsSpace(c) == c \in SpaceChars
HyphenChars == {"-"}
IsHyphen(c) == c \in HyphenChars

LowerChar(c) == IF IsUpper(c) THEN Lowers[CHOOSE i \in 1..26 : Uppers[i] = c] ELSE c
UpperChar(c) == IF IsLower(c) THEN Uppers[CHOOSE i \in 1..26 : Lowers[i] = c] ELSE c

toLowerCase(s) == [i \in 1..Len(s) |-> LowerChar(s[i])]
toUpperCase(s) == [i \in 1..Len(s) |-> UpperChar(s[i])]

Indices(s) == [i \in 1..Len(s) |-> i]

\* s.replace(/[class]+/g, '-'): every maximal run of the class becomes one "-"
RunsToHyphen(s, class) ==
    LET keep == SelectSeq(Indices(s),
                    LAMBDA i : s[i] \notin class \/ i = 1 \/ s[i-1] \notin class)
    IN  [k \in 1..Len(keep) |-> IF s[keep[k]] \in class THEN "-" ELSE s[keep[k]]]

\* s.replace(/^[class]+|[class]+$/g, ''): leading and trailing runs removed
TrimClass(s, class) ==
    LET body == {i \in 1..Len(s) : s[i] \notin class}
    IN  IF body = {} THEN <<>>
        ELSE SubSeq(s, CHOOSE i \in body : \A j \in body : i <= j,
                       CHOOSE i \in body : \A j \in body : j <= i)

\* String.prototype.trim
trim(s) == TrimClass(s, SpaceChars)

RECURSIVE Join(_, _)
\* Array.prototype.join
Join(parts, sep) ==
    IF Len(parts) = 0 THEN <<>>
    ELSE IF Len(parts) = 1 THEN parts[1]
    ELSE parts[1] \o sep \o Join(Tail(parts), sep)

\* s.split(c) for a one-character separator: empty segments are kept
SplitOn(s, c) ==
    LET cuts == <<0>> \o SelectSeq(Indices(s), LAMBDA i : s[i] = c) \o <<Len(s) + 1>>
    IN  [k \in 1..(Len(cuts) - 1) |-> SubSeq(s, cuts[k] + 1, cuts[k+1] - 1)]

\* s.split(/\s+/).filter(word => word.length > 0)
Words(s) ==
    LET starts == SelectSeq(Indices(s),
                    LAMBDA i : ~IsSpace(s[i]) /\ (i = 1 \/ IsSpace(s[i-1])))
        EndOf(i) == CHOOSE j \in i..Len(s) :
                        /\ \A k \in i..j : ~IsSpace(s[k])
                        /\ (j = Len(s) \/ IsSpace(s[j+1]))
    IN  [k \in 1..Len(starts) |-> SubSeq(s, starts[k], EndOf(starts[k]))]

\* word.charAt(0).toUpperCase() + word.slice(1)
Capitalize(word) ==
    IF Len(word) = 0 THEN <<>> ELSE <<UpperChar(word[1])>> \o Tail(word)

-----------------------------------------------------------------------------
(* import-project: the naming functions *)

\* toTitleCase without the split on hyphens
toTitleCase_noSplit(str) == Capitalize(str)

toTitleCase(str) ==
    Join([k \in 1..Len(SplitOn(str, "-")) |-> Capitalize(SplitOn(str, "-")[k])], <<" ">>)

IsSlugKept(c) == IsWordChar(c) \/ IsSpace(c) \/ IsHyphen(c)

\* slugify with the whitespace step moved after the hyphen-collapsing step
slugify_lateDashes(str) ==
    LET lowered   == toLowerCase(str)
        stripped  == SelectSeq(lowered, IsSlugKept)
        collapsed == RunsToHyphen(stripped, HyphenChars)
        dashed    == RunsToHyphen(collapsed, SpaceChars)
    IN  TrimClass(dashed, HyphenChars \cup SpaceChars)

slugify(str) ==
    LET lowered   == toLowerCase(str)
        stripped  == SelectSeq(lowered, IsSlugKept)
        dashed    == RunsToHyphen(stripped, SpaceChars)
        collapsed == RunsToHyphen(dashed, HyphenChars)
    IN  TrimClass(collapsed, HyphenChars \cup SpaceChars)

\* scripts/import-project.ts keeps an earlier slugify that ends in .trim()
slugify_import_project(str) ==
    LET lowered   == toLowerCase(str)
        stripped  == SelectSeq(lowered, IsSlugKept)
        dashed    == RunsToHyphen(stripped, SpaceChars)
        collapsed == RunsToHyphen(dashed, HyphenChars)
    IN  trim(collapsed)

IsTrailingPunct(c) == c \in {"!", "?", ".", ",", ";", ":"}
\* the character test that also lets hyphens through
IsTitleKept_hyphens(c) == IsAlnum(c) \/ IsSpace(c) \/ IsHyphen(c)

IsTitleKept(c) == IsAlnum(c) \/ IsSpace(c)

\* the casing decision cleanAndTitleCase takes for one word
titleCaseWord(word) ==
    LET hasLower == word # toUpperCase(word)
        hasUpper == word # toLowerCase(word)
        standardTitleCase == <<UpperChar(word[1])>> \o toLowerCase(Tail(word))
    IN  IF Len(word) >= 2 /\ Len(word) <= 4 /\ word = toUpperCase(word) THEN word
        ELSE IF hasLower /\ hasUpper /\ word # standardTitleCase THEN word
        ELSE standardTitleCase

\* scripts/import-project.ts keeps an earlier cleanAndTitleCase that lowercases
\* the whole string before it capitalises the words
cleanAndTitleCase_import_project(str) ==
    LET nonWs    == {i \in 1..Len(str) : ~IsSpace(str[i])}
        lastChar == IF nonWs = {} THEN 0 ELSE CHOOSE i \in nonWs : \A j \in nonWs : j <= i
        matched  == lastChar > 0 /\ IsTrailingPunct(str[lastChar])
        runStart == CHOOSE i \in 1..lastChar :
                        /\ \A k \in i..lastChar : IsTrailingPunct(str[k])
                        /\ (i = 1 \/ ~IsTrailingPunct(str[i-1]))
        trailingPunctuation == IF matched THEN SubSeq(str, runStart, lastChar) ELSE <<>>
        unpunctuated == IF matched THEN SubSeq(str, 1, runStart - 1) ELSE str
        cleaned == SelectSeq(unpunctuated, IsTitleKept)
        words == Words(toLowerCase(cleaned))
        titleCased == Join([k \in 1..Len(words) |-> Capitalize(words[k])], <<" ">>)
    IN  titleCased \o trailingPunctuation

cleanAndTitleCase(str) ==
    LET nonWs    == {i \in 1..Len(str) : ~IsSpace(str[i])}
        lastChar == IF nonWs = {} THEN 0 ELSE CHOOSE i \in nonWs : \A j \in nonWs : j <= i
        \* /([!?.,;:]+)\s*$/ : the punctuation run that ends the string
        matched  == lastChar > 0 /\ IsTrailingPunct(str[lastChar])
        runStart == CHOOSE i \in 1..lastChar :
                        /\ \A k \in i..lastChar : IsTrailingPunct(str[k])
                        /\ (i = 1 \/ ~IsTrailingPunct(str[i-1]))
        trailingPunctuation == IF matched THEN SubSeq(str, runStart, lastChar) ELSE <<>>
        unpunctuated == IF matched THEN SubSeq(str, 1, runStart - 1) ELSE str
        cleaned == SelectSeq(unpunctuated, IsTitleKept)
        words == Words(cleaned)
        titleCased == Join([k \in 1..Len(words) |-> titleCaseWord(words[k])], <<" ">>)
    IN  titleCased \o trailingPunctuation

-----------------------------------------------------------------------------
(* Regular-expression matching on character sequences *)

\* the literal lit matches s at index i, ignoring case (the /i flag)
LitAt(s, i, lit) ==
    /\ i >= 1
    /\ i + Len(lit) - 1 <= Len(s)
    /\ \A k \in 1..Len(lit) : LowerChar(s[i + k - 1]) = LowerChar(lit[k])

\* index of the first character from index i on that is in class, 0 if none
FirstFrom(s, i, class) ==
    LET hits == {j \in i..Len(s) : s[j] \in class}
    IN  IF hits = {} THEN 0 ELSE CHOOSE j \in hits : \A k \in hits : j <= k

\* index of the first character from index i on that is no whitespace, 0 if none
FirstNonSpace(s, i) ==
    LET hits == {j \in i..Len(s) : ~IsSpace(s[j])}
    IN  IF hits = {} THEN 0 ELSE CHOOSE j \in hits : \A k \in hits : j <= k

QuoteChars == {"'", "\""}
IsQuote(c) == c \in QuoteChars

\* the smallest member of a non-empty set of indices
Least(S) == CHOOSE i \in S : \A j \in S : i <= j

\* /open[^>]*>([^<]+)close/i (attrs) or /open([^<]+)close/i (no attrs) tried at
\* index i: <<from, to>> of the capture group, or <<>> when it does not match
ElementAt(s, i, open, attrs, close) ==
    IF ~LitAt(s, i, open) THEN <<>>
    ELSE LET afterOpen == i + Len(open)
             gt    == IF attrs THEN FirstFrom(s, afterOpen, {">"}) ELSE afterOpen - 1
             lt    == IF gt = 0 THEN 0 ELSE FirstFrom(s, gt + 1, {"<"})
         IN  IF gt = 0 \/ lt = 0 \/ lt < gt + 2 \/ ~LitAt(s, lt, close) THEN <<>>
             ELSE <<gt + 1, lt - 1>>

\* content.match(/open...close/i): the capture group of the leftmost match
ElementMatch(s, open, attrs, close) ==
    LET at == {i \in 1..Len(s) : ElementAt(s, i, open, attrs, close) # <<>>}
    IN  IF at = {} THEN NONE
        ELSE LET m == ElementAt(s, Least(at), open, attrs, close)
             IN  SubSeq(s, m[1], m[2])

\* /key\s*['"]([^'"]+)['"]/i tried at index i
KeyLiteralAt(s, i, key) ==
    IF ~LitAt(s, i, key) THEN <<>>
    ELSE LET q1 == FirstNonSpace(s, i + Len(key))
             q2 == IF q1 = 0 THEN 0 ELSE FirstFrom(s, q1 + 1, QuoteChars)
         IN  IF q1 = 0 \/ ~IsQuote(s[q1]) \/ q2 = 0 \/ q2 < q1 + 2 THEN <<>>
             ELSE <<q1 + 1, q2 - 1>>

KeyLiteralMatch(s, key) ==
    LET at == {i \in 1..Len(s) : KeyLiteralAt(s, i, key) # <<>>}
    IN  IF at = {} THEN NONE
        ELSE LET m == KeyLiteralAt(s, Least(at), key)
             IN  SubSeq(s, m[1], m[2])

-----------------------------------------------------------------------------
(* The literals of the extraction patterns *)

LitH1Open     == <<"<","h","1">>
LitH1Close    == <<"<","/","h","1",">">>
LitTitleOpen  == <<"<","t","i","t","l","e",">">>
LitTitleClose == <<"<","/","t","i","t","l","e",">">>
LitTitleKey   == <<"t","i","t","l","e",":">>
LitNameKey    == <<"n","a","m","e",":">>

h1Match(content)    == ElementMatch(content, LitH1Open, TRUE, LitH1Close)
titleMatch(content) == ElementMatch(content, LitTitleOpen, FALSE, LitTitleClose)

\* extractTitleFromContent with the <title> rule tried before the heading rule
extractTitleFromContent_titleFirst(content, type) ==
    IF type = "html" /\ titleMatch(content) # NONE
    THEN cleanAndTitleCase(trim(titleMatch(content)))
    ELSE IF h1Match(content) # NONE THEN cleanAndTitleCase(trim(h1Match(content)))
    ELSE IF KeyLiteralMatch(content, LitTitleKey) # NONE
         THEN cleanAndTitleCase(trim(KeyLiteralMatch(content, LitTitleKey)))
    ELSE IF KeyLiteralMatch(content, LitNameKey) # NONE
         THEN cleanAndTitleCase(trim(KeyLiteralMatch(content, LitNameKey)))
    ELSE NONE

extractTitleFromContent(content, type) ==
    IF h1Match(content) # NONE THEN cleanAndTitleCase(trim(h1Match(content)))
    ELSE IF type = "html" /\ titleMatch(content) # NONE
         THEN cleanAndTitleCase(trim(titleMatch(content)))
    ELSE IF KeyLiteralMatch(content, LitTitleKey) # NONE
         THEN cleanAndTitleCase(trim(KeyLiteralMatch(content, LitTitleKey)))
    ELSE IF KeyLiteralMatch(content, LitNameKey) # NONE
         THEN cleanAndTitleCase(trim(KeyLiteralMatch(content, LitNameKey)))
    ELSE NONE

LitSubheadline == <<"<","d","i","v"," ","c","l","a","s","s","=","\"",
                    "s","u","b","h","e","a","d","l","i","n","e","\"">>
LitHeadline    == <<"<","d","i","v"," ","c","l","a","s","s","=","\"",
                    "h","e","a","d","l","i","n","e","\"">>
LitDivClose    == <<"<","/","d","i","v",">">>
LitMeta        == <<"<","m","e","t","a">>
LitNameAttr    == <<"n","a","m","e","=">>
LitDescription == <<"d","e","s","c","r","i","p","t","i","o","n">>
LitContentAttr == <<"c","o","n","t","e","n","t","=">>
LitDescriptionKey == <<"d","e","s","c","r","i","p","t","i","o","n",":">>
LitSubtitleKey    == <<"s","u","b","t","i","t","l","e",":">>

\* /<div class="..."[^>]*>\s*([^<]+)\s*<\/div>/i followed by .trim() of the group:
\* the group is the element's text without its leading whitespace (or its last
\* whitespace character when it is all whitespace), so trimmed it is trim(text)
subheadlineMatch(content) == ElementMatch(content, LitSubheadline, TRUE, LitDivClose)
headlineMatch(content)    == ElementMatch(content, LitHeadline, TRUE, LitDivClose)

\* headline.replace(/^[^:]+:\s*/, '')
stripLabel(headline) ==
    LET colon == FirstFrom(headline, 1, {":"})
        rest  == IF colon = 0 THEN 0 ELSE FirstNonSpace(headline, colon + 1)
    IN  IF colon < 2 THEN headline
        ELSE IF rest = 0 THEN <<>>
        ELSE SubSeq(headline, rest, Len(headline))

\* /<meta\s+name=["']description["']\s+content=["']([^"']+)["']/i tried at index i
MetaAt(s, i) ==
    IF ~LitAt(s, i, LitMeta) THEN <<>>
    ELSE LET sp1  == i + Len(LitMeta)
             nm   == FirstNonSpace(s, sp1)
             q1   == nm + Len(LitNameAttr)
             q2   == q1 + 1 + Len(LitDescription)
             ct   == FirstNonSpace(s, q2 + 1)
             q3   == ct + Len(LitContentAttr)
             q4   == FirstFrom(s, q3 + 1, QuoteChars)
         IN  IF /\ nm > sp1
                /\ LitAt(s, nm, LitNameAttr)
                /\ q1 <= Len(s) /\ IsQuote(s[q1])
                /\ LitAt(s, q1 + 1, LitDescription)
                /\ q2 <= Len(s) /\ IsQuote(s[q2])
                /\ ct > q2 + 1
                /\ LitAt(s, ct, LitContentAttr)
                /\ q3 <= Len(s) /\ IsQuote(s[q3])
                /\ q4 >= q3 + 2
             THEN <<q3 + 1, q4 - 1>>
             ELSE <<>>

metaMatch(content) ==
    LET at == {i \in 1..Len(content) : MetaAt(content, i) # <<>>}
    IN  IF at = {} THEN NONE
        ELSE LET m == MetaAt(content, Least(at))
             IN  SubSeq(content, m[1], m[2])

\* extractDescriptionFromContent with the headline rule tried before the
\* subheadline rule
extractDescriptionFromContent_headlineFirst(content, type) ==
    IF headlineMatch(content) # NONE THEN stripLabel(trim(headlineMatch(content)))
    ELSE IF subheadlineMatch(content) # NONE THEN trim(subheadlineMatch(content))
    ELSE IF metaMatch(content) # NONE THEN trim(metaMatch(content))
    ELSE IF KeyLiteralMatch(content, LitDescriptionKey) # NONE
         THEN trim(KeyLiteralMatch(content, LitDescriptionKey))
    ELSE IF KeyLiteralMatch(content, LitSubtitleKey) # NONE
         THEN trim(KeyLiteralMatch(content, LitSubtitleKey))
    ELSE NONE

extractDescriptionFromContent(content, type) ==
    IF subheadlineMatch(content) # NONE THEN trim(subheadlineMatch(content))
    ELSE IF headlineMatch(content) # NONE THEN stripLabel(trim(headlineMatch(content)))
    ELSE IF metaMatch(content) # NONE THEN trim(metaMatch(content))
    ELSE IF KeyLiteralMatch(content, LitDescriptionKey) # NONE
         THEN trim(KeyLiteralMatch(content, LitDescriptionKey))
    ELSE IF KeyLiteralMatch(content, LitSubtitleKey) # NONE
         THEN trim(KeyLiteralMatch(content, LitSubtitleKey))
    ELSE NONE

-----------------------------------------------------------------------------
(* Paths and the files the scripts write *)

IsDot(c) == c = "."

\* path.extname: from the last "." on, "" when there is none or it comes first
extname(filename) ==
    LET dots == {i \in 1..Len(filename) : IsDot(filename[i])}
        lastDot == IF dots = {} THEN 0 ELSE CHOOSE i \in dots : \A j \in dots : j <= i
    IN  IF lastDot <= 1 THEN <<>> ELSE SubSeq(filename, lastDot, Len(filename))

\* path.basename(filename, ext)
basename(filename, ext) ==
    IF Len(ext) > 0 /\ Len(filename) > Len(ext)
       /\ SubSeq(filename, Len(filename) - Len(ext) + 1, Len(filename)) = ext
    THEN SubSeq(filename, 1, Len(filename) - Len(ext))
    ELSE filename

ExtTsx  == <<".","t","s","x">>
ExtHtml == <<".","h","t","m","l">>

\* the extension test that lets every file with an extension through
IsSupported_anyExtension(ext) == Len(ext) > 0

\* ['.tsx', '.html'].includes(ext)
IsSupported(ext) == ext \in {ExtTsx, ExtHtml}

Interactive == <<"I","n","t","e","r","a","c","t","i","v","e"," ">>

\* the generated index.html, reduced to the one line that varies
htmlContent(projectTitle) == LitTitleOpen \o projectTitle \o LitTitleClose
mainContent == <<"m","a","i","n">>
cssContent  == <<"c","s","s">>

\* a README.txt that ends with a newline of its own
generateReadme_trailingNewline(metadata) ==
    metadata.title \o <<"\n">> \o metadata.description \o <<"\n">>

\* generateReadme
generateReadme(metadata) == metadata.title \o <<"\n">> \o metadata.description

\* a function with one more (or one replaced) entry: fs.writeFileSync on a directory
Put(f, k, v) == [x \in DOMAIN f \cup {k} |-> IF x = k THEN v ELSE f[x]]
\* a function without one entry: a removed or moved-away file or directory
Drop(f, k) == [x \in DOMAIN f \ {k} |-> f[x]]
\* g laid over f: every file of g copied into directory f
Overlay(f, g) == [x \in DOMAIN f \cup DOMAIN g |-> IF x \in DOMAIN g THEN g[x] ELSE f[x]]

EmptyDir == [x \in {} |-> <<>>]

\* A project directory is [json, meta, files]: json says whether project.json is
\* "absent", "valid" or "corrupt" (not parseable), meta is the parsed record when
\* valid, files are the other files.  The key <<>> of projects stands for the
\* projects/ directory itself: path.join(PROJECTS_DIR, '') is PROJECTS_DIR.
NoMeta == [name |-> NONE]
NewDir == [json |-> "absent", meta |-> NoMeta, files |-> EmptyDir]

-----------------------------------------------------------------------------
(* import-project: processImport *)

\* const type = ext === '.tsx' ? 'tsx' : 'html'
typeOf(ext) == IF ext = ExtTsx THEN "tsx" ELSE "html"

\* a JavaScript string used as a condition: null and '' are falsy
Truthy(str) == str # NONE /\ str # <<>>

\* the project name with the extracted title taking precedence over the override
projectNameOf_extractedFirst(defaultProjectName, titleOverride, extractedTitle) ==
    IF Truthy(extractedTitle) THEN slugify(extractedTitle)
    ELSE IF Truthy(titleOverride) THEN slugify(titleOverride)
    ELSE defaultProjectName

\* the project name processImport derives
projectNameOf(defaultProjectName, titleOverride, extractedTitle) ==
    IF Truthy(titleOverride) THEN slugify(titleOverride)
    ELSE IF Truthy(extractedTitle) THEN slugify(extractedTitle)
    ELSE defaultProjectName

\* the project title with the extracted title tested against null only
projectTitleOf_nullCheck(defaultProjectName, titleOverride, extractedTitle) ==
    IF Truthy(titleOverride) THEN titleOverride
    ELSE IF extractedTitle # NONE THEN extractedTitle
    ELSE toTitleCase(defaultProjectName)

\* the project title processImport derives
projectTitleOf(defaultProjectName, titleOverride, extractedTitle) ==
    IF Truthy(titleOverride) THEN titleOverride
    ELSE IF Truthy(extractedTitle) THEN extractedTitle
    ELSE toTitleCase(defaultProjectName)

\* the merge without the spread of the existing record
mergeMetadata_noSpread(existing, projectName, type) ==
    [name |-> projectName, type |-> type]

\* the merge that leaves the existing type alone
mergeMetadata_keepType(existing, projectName, type) ==
    [k \in DOMAIN existing \cup {"name", "type"} |->
        IF k = "name" THEN projectName
        ELSE IF k = "type" /\ "type" \notin DOMAIN existing THEN type
        ELSE existing[k]]

\* metadata = { ...existing, name: projectName, type: type }
mergeMetadata(existing, projectName, type) ==
    [k \in DOMAIN existing \cup {"name", "type"} |->
        IF k = "name" THEN projectName
        ELSE IF k = "type" THEN type
        ELSE existing[k]]

\* the new record with the default description always used
newMetadata_alwaysDefault(projectName, projectTitle, extractedDescription, type) ==
    [name        |-> projectName,
     title       |-> projectTitle,
     description |-> Interactive \o projectTitle,
     type        |-> type]

\* the new record named after the title instead of the directory
newMetadata_nameFromTitle(projectName, projectTitle, extractedDescription, type) ==
    [name        |-> slugify(projectTitle),
     title       |-> projectTitle,
     description |-> IF Truthy(extractedDescription) THEN extractedDescription
                     ELSE Interactive \o projectTitle,
     type        |-> type]

\* the record of a project that has no project.json yet
newMetadata(projectName, projectTitle, extractedDescription, type) ==
    [name        |-> projectName,
     title       |-> projectTitle,
     description |-> IF Truthy(extractedDescription) THEN extractedDescription
                     ELSE Interactive \o projectTitle,
     type        |-> type]

\* a move that leaves an index file that is already there as it is
importedFiles_keepExisting(files, type, content, projectTitle) ==
    LET index == IF type = "tsx" THEN "index.tsx" ELSE "index.html"
        moved == IF index \in DOMAIN files THEN files ELSE Put(files, index, content)
    IN  IF type = "tsx"
        THEN Put(Put(Put(moved, "index.html", htmlContent(projectTitle)),
                     "main.tsx", mainContent), "index.css", cssContent)
        ELSE moved

\* the files of the project directory after the move and the tsx scaffold
importedFiles(files, type, content, projectTitle) ==
    LET moved == Put(files, IF type = "tsx" THEN "index.tsx" ELSE "index.html", content)
    IN  IF type = "tsx"
        THEN Put(Put(Put(moved, "index.html", htmlContent(projectTitle)),
                     "main.tsx", mainContent), "index.css", cssContent)
        ELSE moved

\* storeImport that writes a fresh record over a project.json it cannot parse
storeImport_recreate(type, content, projectName, projectTitle, extractedTitle, extractedDescription, dirs) ==
    LET before == IF projectName \in DOMAIN dirs THEN dirs[projectName] ELSE NewDir
        files  == importedFiles(before.files, type, content, projectTitle)
        metadata == IF before.json = "valid"
                    THEN mergeMetadata(before.meta, projectName, type)
                    ELSE newMetadata(projectName, projectTitle, extractedDescription, type)
    IN  [skipped |-> FALSE,
         type |-> type,
         extractedTitle |-> extractedTitle,
         extractedDescription |-> extractedDescription,
         projectName |-> projectName,
         projectTitle |-> projectTitle,
         before |-> before,
         threw |-> FALSE,
         after |-> [json |-> "valid", meta |-> metadata, files |-> files]]

\* processImport from the creation of the project directory on: the move, the
\* scaffold and project.json, given what was derived so far
storeImport(type, content, projectName, projectTitle, extractedTitle, extractedDescription, dirs) ==
    LET before == IF projectName \in DOMAIN dirs THEN dirs[projectName] ELSE NewDir
        files  == importedFiles(before.files, type, content, projectTitle)
        metadata == IF before.json = "valid"
                    THEN mergeMetadata(before.meta, projectName, type)
                    ELSE newMetadata(projectName, projectTitle, extractedDescription, type)
    IN  [skipped |-> FALSE,
         type |-> type,
         extractedTitle |-> extractedTitle,
         extractedDescription |-> extractedDescription,
         projectName |-> projectName,
         projectTitle |-> projectTitle,
         before |-> before,
         \* JSON.parse throws on a corrupt project.json, after the move
         threw |-> before.json = "corrupt",
         after |-> IF before.json = "corrupt" THEN [before EXCEPT !.files = files]
                   ELSE [json |-> "valid", meta |-> metadata, files |-> files]]

\* processImport from the title override on, given what was read from the file
nameImport(defaultProjectName, type, content, titleOverride, extractedTitle, extractedDescription, dirs) ==
    storeImport(type, content,
                projectNameOf(defaultProjectName, titleOverride, extractedTitle),
                projectTitleOf(defaultProjectName, titleOverride, extractedTitle),
                extractedTitle, extractedDescription, dirs)

\* everything processImport computes for one file, given IMPORT_TITLE and projects/
processImport(filename, content, titleOverride, dirs) ==
    IF ~IsSupported(extname(filename))
    THEN [skipped |-> TRUE, threw |-> FALSE]
    ELSE nameImport(basename(filename, extname(filename)), typeOf(extname(filename)),
                    content, titleOverride,
                    extractTitleFromContent(content, typeOf(extname(filename))),
                    extractDescriptionFromContent(content, typeOf(extname(filename))),
                    dirs)

-----------------------------------------------------------------------------
(* build-projects: buildProject *)

\* what vite leaves in the emptied output directory
viteOutput(files) ==
    [x \in {"index.html", "assets/index.js"} |->
        IF x = "index.html" THEN files["index.html"] ELSE files["index.tsx"]]

LitViteConfig == <<".","v","i","t","e",".","c","o","n","f","i","g",".">>
ExtTs == <<".","t","s">>
ParentReadme == <<"p","a","r","e","n","t","-","R","E","A","D","M","E",".","t","x","t">>

\* path.join(process.cwd(), `.vite.config.${projectName}.ts`)
tempConfigPath(projectName) == LitViteConfig \o projectName \o ExtTs

\* buildTsxProject whose catch branch rethrows without removing the file
buildTsxProject_leakOnFailure(projectName, projectFiles, buildDir, files, vite) ==
    [threw |-> vite # "ok",
     out   |-> IF vite = "ok" THEN viteOutput(projectFiles)
               ELSE IF vite = "fail" THEN buildDir ELSE EmptyDir,
     cwd   |-> IF vite = "ok" THEN files \ {tempConfigPath(projectName)}
               ELSE files \cup {tempConfigPath(projectName)}]

\* buildTsxProject: files are the files of the working directory; the result is
\* whether vite threw, the build directory and the working directory afterwards
buildTsxProject(projectName, projectFiles, buildDir, files, vite) ==
    [threw |-> vite # "ok",
     out   |-> IF vite = "ok" THEN viteOutput(projectFiles)
               ELSE IF vite = "fail" THEN buildDir ELSE EmptyDir,
     \* fs.writeFileSync(tempConfigPath), then fs.unlinkSync on either path
     cwd   |-> (files \cup {tempConfigPath(projectName)}) \ {tempConfigPath(projectName)}]

\* buildHtmlProject: copyDir(projectDir, buildDir), project.json is no member
\* of the files of a project directory here
buildHtmlProject(projectName, projectFiles, buildDir) == Overlay(buildDir, projectFiles)

\* a test for the new directory that never finds it
existsSync_never(newName, dirs) == FALSE

\* fs.existsSync(newProjectDir): path.join(PROJECTS_DIR, '') is projects/ itself
existsSync(newName, dirs) == newName \in DOMAIN dirs \/ newName = <<>>

\* buildProject without the clean-up of the old build directory after a rename
buildProject_noCleanup(projectName, dirs, blds, files, vite) ==
    LET dir == dirs[projectName]
        metadata == dir.meta
        mismatch == metadata.name # projectName
        targetExists == existsSync(metadata.name, dirs)
        renamed == dir.json = "valid" /\ mismatch /\ ~targetExists
        currentProjectName == IF renamed THEN metadata.name ELSE projectName
        dirsAfter == IF renamed THEN Put(Drop(dirs, projectName), metadata.name, dir)
                     ELSE dirs
        cleaned == blds
        buildDir == IF currentProjectName \in DOMAIN cleaned
                    THEN cleaned[currentProjectName] ELSE EmptyDir
        tsx == buildTsxProject(currentProjectName, dir.files, buildDir, files, vite)
        viteThrew == metadata.type = "tsx" /\ tsx.threw
        built == IF metadata.type = "tsx" THEN tsx.out
                 ELSE IF metadata.type = "html"
                      THEN buildHtmlProject(currentProjectName, dir.files, buildDir)
                 ELSE buildDir
        withReadme == IF viteThrew THEN built
                      ELSE Put(built, "README.txt", generateReadme(metadata))
    IN  IF dir.json # "valid"
        THEN [skipped |-> dir.json = "absent", threw |-> dir.json = "corrupt",
              renamed |-> FALSE, currentProjectName |-> projectName,
              projects |-> dirs, builds |-> blds, cwd |-> files]
        ELSE [skipped |-> FALSE, threw |-> viteThrew,
              renamed |-> renamed, currentProjectName |-> currentProjectName,
              projects |-> dirsAfter,
              builds |-> Put(cleaned, currentProjectName, withReadme),
              cwd |-> IF metadata.type = "tsx" THEN tsx.cwd ELSE files]

\* everything buildProject does for one listed directory; vite is "ok", "fail"
\* (output directory untouched) or "fail-emptied" (it failed after emptying it)
buildProject(projectName, dirs, blds, files, vite) ==
    LET dir == dirs[projectName]
        metadata == dir.meta
        mismatch == metadata.name # projectName
        targetExists == existsSync(metadata.name, dirs)
        renamed == dir.json = "valid" /\ mismatch /\ ~targetExists
        currentProjectName == IF renamed THEN metadata.name ELSE projectName
        dirsAfter == IF renamed THEN Put(Drop(dirs, projectName), metadata.name, dir)
                     ELSE dirs
        cleaned == IF renamed THEN Drop(blds, projectName) ELSE blds
        buildDir == IF currentProjectName \in DOMAIN cleaned
                    THEN cleaned[currentProjectName] ELSE EmptyDir
        tsx == buildTsxProject(currentProjectName, dir.files, buildDir, files, vite)
        viteThrew == metadata.type = "tsx" /\ tsx.threw
        built == IF metadata.type = "tsx" THEN tsx.out
                 ELSE IF metadata.type = "html"
                      THEN buildHtmlProject(currentProjectName, dir.files, buildDir)
                 ELSE buildDir
        withReadme == IF viteThrew THEN built
                      ELSE Put(built, "README.txt", generateReadme(metadata))
    IN  IF dir.json # "valid"
        THEN [skipped |-> dir.json = "absent", threw |-> dir.json = "corrupt",
              renamed |-> FALSE, currentProjectName |-> projectName,
              projects |-> dirs, builds |-> blds, cwd |-> files]
        ELSE [skipped |-> FALSE, threw |-> viteThrew,
              renamed |-> renamed, currentProjectName |-> currentProjectName,
              projects |-> dirsAfter,
              builds |-> Put(cleaned, currentProjectName, withReadme),
              cwd |-> IF metadata.type = "tsx" THEN tsx.cwd ELSE files]

-----------------------------------------------------------------------------
(* The files, titles and edits the model draws from *)

MaxDrops == 2
MaxEdits == 1

H1(text)  == <<"<","h","1",">">> \o text \o LitH1Close
Div(class, text) == class \o <<">">> \o text \o LitDivClose

DocPlain == <<"<","p",">","x","<","/","p",">">>
DocAb    == H1(<<"A","b">>)
DocAB    == H1(<<"A","B">>) \o Div(LitSubheadline, <<"Z","z">>)
DocBang  == H1(<<"!">>)
DocLabel == H1(<<"C"," ","d">>) \o Div(LitHeadline, <<"T",":">>)
DocBlank == H1(<<" ">>)

FileAbTsx  == <<"a","b">> \o ExtTsx
FileABTsx  == <<"A","B">> \o ExtTsx
FileAbHtml == <<"a","b">> \o ExtHtml
FileSpaced == <<"A"," ","b">> \o ExtHtml
FileNotes  == <<"n",".","t","x","t">>
FileHyphen == <<"c","-","d">> \o ExtHtml

\* what may be dropped into import/
Dropped ==
    { [name |-> FileAbTsx,  content |-> DocPlain],
      [name |-> FileAbTsx,  content |-> DocAB],
      [name |-> FileAbHtml, content |-> DocAb],
      [name |-> FileAbHtml, content |-> DocLabel],
      [name |-> FileSpaced, content |-> DocPlain],
      [name |-> FileSpaced, content |-> DocBang],
      [name |-> FileNotes,  content |-> DocPlain],
      [name |-> FileHyphen, content |-> DocBlank],
      [name |-> FileHyphen, content |-> DocAB],
      [name |-> FileABTsx,  content |-> DocAb] }

\* the values of IMPORT_TITLE: unset, empty, and a title
Overrides == {NONE, <<>>, <<"a","_","B">>}

\* hand edits of a project.json: a new name, a new title, an extra key, garbage
Edits == {"rename-zz", "rename-ab", "retitle", "extra", "corrupt"}

editMetadata(dir, edit) ==
    IF edit = "corrupt" THEN [dir EXCEPT !.json = "corrupt", !.meta = NoMeta]
    ELSE IF edit = "rename-zz" THEN [dir EXCEPT !.meta.name = <<"z","z">>]
    ELSE IF edit = "rename-ab" THEN [dir EXCEPT !.meta.name = <<"a","b">>]
    ELSE IF edit = "retitle" THEN [dir EXCEPT !.meta.title = <<"H","a","n","d">>]
    ELSE [dir EXCEPT !.meta = Put(dir.meta, "author", <<"m","e">>)]

\* the orders in which a directory listing may give the members of S
Listings(S) ==
    {q \in [1..Cardinality(S) -> S] : \A i, j \in 1..Cardinality(S) : q[i] = q[j] => i = j}

-----------------------------------------------------------------------------
(* The pipeline: files are dropped, import and build runs process them *)

NoStep == [op |-> "none"]

\* neither publish.sh nor deploy-projects.sh has been started
PubIdle == [pc |-> "idle", ran |-> <<>>]
DepIdle == [pc |-> "idle", specific |-> NONE, creds |-> "set",
            selected |-> <<>>, queue |-> <<>>, log |-> <<>>]
ShIdle == pub = PubIdle /\ dep = DepIdle

FnIdle == fnIn = <<>> /\ fnParts = <<>> /\ fnKind = "" /\ fnOut = NONE /\ fnDone = FALSE

Init ==
    /\ FnIdle
    /\ importDir = EmptyDir
    /\ projects = EmptyDir
    /\ builds = EmptyDir
    /\ run = "idle"
    /\ queue = <<>>
    /\ env = NONE
    /\ last = NoStep
    /\ drops = 0
    /\ edits = 0
    /\ cwd = {}
    /\ done = <<>>
    /\ ShIdle

\* the user puts a file into import/
DropFile ==
    \E d \in Dropped :
        /\ run = "idle"
        /\ drops < MaxDrops
        /\ d.name \notin DOMAIN importDir
        /\ importDir' = Put(importDir, d.name, d.content)
        /\ drops' = drops + 1
        /\ last' = NoStep
        /\ done' = <<>>
        /\ UNCHANGED <<fnVars, shVars, projects, builds, run, queue, env, edits, cwd>>

\* the user edits the project.json of a project by hand
EditMetadata ==
    \E d \in DOMAIN projects \ {<<>>}, e \in Edits :
        /\ run = "idle"
        /\ edits < MaxEdits
        /\ projects[d].json = "valid"
        /\ projects' = [projects EXCEPT ![d] = editMetadata(projects[d], e)]
        /\ edits' = edits + 1
        /\ last' = NoStep
        /\ done' = <<>>
        /\ UNCHANGED <<fnVars, shVars, importDir, builds, run, queue, env, drops, cwd>>

\* files.filter(f => ['.tsx', '.html'].includes(path.extname(f)))
importFiles == {f \in DOMAIN importDir : IsSupported(extname(f))}

\* npm run import, up to the listing of import/
StartImport ==
    \E titleOverride \in Overrides, files \in Listings(importFiles) :
        /\ run = "idle"
        /\ importFiles # {}
        /\ run' = "import"
        /\ queue' = files
        /\ env' = titleOverride
        /\ last' = NoStep
        /\ done' = <<>>
        /\ UNCHANGED <<fnVars, shVars, importDir, projects, builds, drops, edits, cwd>>

\* npm run import when import/ holds no file to import: process.exit(0)
ImportNothing ==
    /\ run = "idle"
    /\ importFiles = {}
    /\ last' = [op |-> "import-none", after |-> last.op]
    /\ done' = <<>>
    /\ UNCHANGED <<fnVars, shVars, importDir, projects, builds, run, queue, env, drops, edits, cwd>>

\* processImport that copies the file and leaves the original in import/
ProcessImport_copyFile ==
    /\ run = "import"
    /\ queue # <<>>
    /\ \E r \in {processImport(Head(queue), importDir[Head(queue)], env, projects)} :
           /\ importDir' = importDir
           /\ projects' = IF r.skipped THEN projects
                          ELSE Put(projects, r.projectName, r.after)
           /\ queue' = IF r.threw \/ Len(queue) = 1 THEN <<>> ELSE Tail(queue)
           /\ run' = IF r.threw \/ Len(queue) = 1 THEN "idle" ELSE "import"
           /\ env' = IF r.threw \/ Len(queue) = 1 THEN NONE ELSE env
           /\ last' = [op |-> "import", file |-> Head(queue), override |-> env,
                       result |-> r]
           /\ done' = Append(done, [file |-> Head(queue),
                                    content |-> importDir[Head(queue)],
                                    result |-> r])
    /\ UNCHANGED <<fnVars, shVars, builds, drops, edits, cwd>>

\* the loop over the files with an error caught per file
ProcessImport_keepGoing ==
    /\ run = "import"
    /\ queue # <<>>
    /\ \E r \in {processImport(Head(queue), importDir[Head(queue)], env, projects)} :
           /\ importDir' = IF r.skipped THEN importDir ELSE Drop(importDir, Head(queue))
           /\ projects' = IF r.skipped THEN projects
                          ELSE Put(projects, r.projectName, r.after)
           /\ queue' = IF Len(queue) = 1 THEN <<>> ELSE Tail(queue)
           /\ run' = IF Len(queue) = 1 THEN "idle" ELSE "import"
           /\ env' = IF Len(queue) = 1 THEN NONE ELSE env
           /\ last' = [op |-> "import", file |-> Head(queue), override |-> env,
                       result |-> r]
           /\ done' = Append(done, [file |-> Head(queue),
                                    content |-> importDir[Head(queue)],
                                    result |-> r])
    /\ UNCHANGED <<fnVars, shVars, builds, drops, edits, cwd>>

\* importFiles.forEach(processImport): one call of processImport
ProcessImport ==
    /\ run = "import"
    /\ queue # <<>>
    /\ \E r \in {processImport(Head(queue), importDir[Head(queue)], env, projects)} :
           /\ importDir' = IF r.skipped THEN importDir ELSE Drop(importDir, Head(queue))
           /\ projects' = IF r.skipped THEN projects
                          ELSE Put(projects, r.projectName, r.after)
           /\ queue' = IF r.threw \/ Len(queue) = 1 THEN <<>> ELSE Tail(queue)
           /\ run' = IF r.threw \/ Len(queue) = 1 THEN "idle" ELSE "import"
           /\ env' = IF r.threw \/ Len(queue) = 1 THEN NONE ELSE env
           /\ last' = [op |-> "import", file |-> Head(queue), override |-> env,
                       result |-> r]
           /\ done' = Append(done, [file |-> Head(queue),
                                    content |-> importDir[Head(queue)],
                                    result |-> r])
    /\ UNCHANGED <<fnVars, shVars, builds, drops, edits, cwd>>

\* fs.readdirSync(PROJECTS_DIR).filter(isDirectory)
projectDirs == DOMAIN projects \ {<<>>}

\* a listing that gives every directory twice
StartBuildAll_listTwice ==
    \E dirs \in Listings(projectDirs) :
        /\ run = "idle"
        /\ projectDirs # {}
        /\ run' = "build"
        /\ queue' = dirs \o dirs
        /\ last' = NoStep
        /\ done' = <<>>
        /\ cwd' = cwd \cup {ParentReadme}
        /\ UNCHANGED <<fnVars, shVars, importDir, projects, builds, env, drops, edits>>

\* npm run build-all, up to the listing of projects/
StartBuildAll ==
    \E dirs \in Listings(projectDirs) :
        /\ run = "idle"
        /\ projectDirs # {}
        /\ run' = "build"
        /\ queue' = dirs
        /\ last' = NoStep
        /\ done' = <<>>
        \* ensureParentReadme
        /\ cwd' = cwd \cup {ParentReadme}
        /\ UNCHANGED <<fnVars, shVars, importDir, projects, builds, env, drops, edits>>

\* npm run build <project>
StartBuild ==
    \E specificProject \in projectDirs :
        /\ run = "idle"
        /\ run' = "build"
        /\ queue' = <<specificProject>>
        /\ last' = NoStep
        /\ done' = <<>>
        \* ensureParentReadme
        /\ cwd' = cwd \cup {ParentReadme}
        /\ UNCHANGED <<fnVars, shVars, importDir, projects, builds, env, drops, edits>>

\* npm run build-all when projects/ holds no directory: process.exit(0)
BuildNothing ==
    /\ run = "idle"
    /\ projectDirs = {}
    /\ last' = [op |-> "build-none"]
    /\ done' = <<>>
    \* ensureParentReadme
    /\ cwd' = cwd \cup {ParentReadme}
    /\ UNCHANGED <<fnVars, shVars, importDir, projects, builds, run, queue, env, drops, edits>>

\* projects.forEach(buildProject): one call of buildProject
BuildProject ==
    \E vite \in {"ok", "fail", "fail-emptied"} :
        /\ run = "build"
        /\ queue # <<>>
        /\ \E r \in {buildProject(Head(queue), projects, builds, cwd, vite)} :
               /\ projects' = r.projects
               /\ builds' = r.builds
               /\ cwd' = r.cwd
               /\ done' = Append(done, [dir |-> Head(queue),
                                        json |-> projects[Head(queue)].json,
                                        meta |-> projects[Head(queue)].meta,
                                        skipped |-> r.skipped, threw |-> r.threw,
                                        renamed |-> r.renamed,
                                        currentProjectName |-> r.currentProjectName])
               /\ queue' = IF r.threw \/ Len(queue) = 1 THEN <<>> ELSE Tail(queue)
               /\ run' = IF r.threw \/ Len(queue) = 1 THEN "idle" ELSE "build"
               /\ last' = [op |-> "build", dir |-> Head(queue),
                           rest |-> Tail(queue),
                           before |-> projects[Head(queue)],
                           dirsBefore |-> DOMAIN projects,
                           buildsBefore |-> builds,
                           skipped |-> r.skipped, threw |-> r.threw,
                           renamed |-> r.renamed,
                           currentProjectName |-> r.currentProjectName]
        /\ UNCHANGED <<fnVars, shVars, importDir, env, drops, edits>>

Next ==
    \/ DropFile
    \/ EditMetadata
    \/ StartImport
    \/ ImportNothing
    \/ ProcessImport
    \/ StartBuildAll
    \/ StartBuild
    \/ BuildNothing
    \/ BuildProject

Spec == Init /\ [][Next]_vars

-----------------------------------------------------------------------------
(* slugify applied to every short string over a small alphabet *)

MaxSlugLen == 4

SlugAlphabet == {"a", "B", "7", "_", " ", "-", "!"}

\* every string over alphabet A of length at most n
StringsUpTo(A, n) == UNION {[1..k -> A] : k \in 0..n}

FsIdle ==
    /\ importDir = EmptyDir /\ projects = EmptyDir /\ builds = EmptyDir
    /\ run = "idle" /\ queue = <<>> /\ env = NONE /\ last = NoStep
    /\ drops = 0 /\ edits = 0 /\ cwd = {} /\ done = <<>>

InitSlug ==
    /\ fnIn \in StringsUpTo(SlugAlphabet, MaxSlugLen)
    /\ fnParts = <<>>
    /\ fnKind = ""
    /\ fnOut = NONE
    /\ fnDone = FALSE
    /\ FsIdle
    /\ ShIdle

\* slugify of the current import script
ApplySlugify ==
    /\ ~fnDone
    /\ fnOut' = slugify(fnIn)
    /\ fnKind' = "slugify"
    /\ fnDone' = TRUE
    /\ UNCHANGED <<fnIn, fnParts, fsVars, shVars>>

\* slugify of scripts/import-project.ts
ApplySlugifyImportProject ==
    /\ ~fnDone
    /\ fnOut' = slugify_import_project(fnIn)
    /\ fnKind' = "slugify_import_project"
    /\ fnDone' = TRUE
    /\ UNCHANGED <<fnIn, fnParts, fsVars, shVars>>

NextSlug == ApplySlugify \/ ApplySlugifyImportProject

SpecSlug == InitSlug /\ [][NextSlug]_vars

\* ^[a-z0-9]+(-[a-z0-9]+)*$
MatchesSlugPattern(s) ==
    /\ Len(s) > 0
    /\ \A i \in 1..Len(s) : IsLower(s[i]) \/ IsDigit(s[i]) \/ s[i] = "-"
    /\ s[1] # "-"
    /\ s[Len(s)] # "-"
    /\ \A i \in 1..(Len(s) - 1) : ~(s[i] = "-" /\ s[i+1] = "-")

HasAlnum(s) == \E i \in 1..Len(s) : IsAlnum(s[i])

\* the function the last Apply step used
Applied(x) == IF fnKind = "slugify" THEN slugify(x) ELSE slugify_import_project(x)

\* C2: for every non-empty input with at least one ASCII letter or digit, the
\* result of slugify matches ^[a-z0-9]+(-[a-z0-9]+)*$
C2_SlugPattern ==
    (fnDone /\ fnKind = "slugify" /\ Len(fnIn) > 0 /\ HasAlnum(fnIn))
        => MatchesSlugPattern(fnOut)

\* C3: slugify is idempotent, slugify(slugify(x)) = slugify(x) for every x, and
\* a string already in slug form is returned unchanged
C3_SlugifyIdempotent ==
    fnDone => /\ Applied(fnOut) = fnOut
              /\ (MatchesSlugPattern(fnIn) => fnOut = fnIn)

\* slugify changed its input, and the input as it was is in slug form too
C3_Witness ==
    /\ fnDone /\ fnKind = "slugify"
    /\ fnOut # fnIn /\ Len(fnOut) > 1 /\ MatchesSlugPattern(fnOut)

-----------------------------------------------------------------------------
(* cleanAndTitleCase applied to every short string over a small alphabet and *)
(* to the titles the specification gives as examples                         *)

MaxCleanLen == 5

CleanAlphabet == {"a", "B", "1", " ", "!", "-"}

TitleApiGuide == <<"A","P","I"," ","G","u","i","d","e">>
TitleIosTips  == <<"i","O","S"," ","T","i","p","s">>
TitleRadical  ==
    <<"R","A","D","I","C","A","L"," ","P","R","O","G","R","A","M","M","I","N","G">>
        \o <<" ","T","I","M","E","L","I","N","E","!">>
TitleRadicalCleaned ==
    <<"R","a","d","i","c","a","l"," ","P","r","o","g","r","a","m","m","i","n","g">>
        \o <<" ","T","i","m","e","l","i","n","e","!">>

ExampleTitles == {TitleApiGuide, TitleIosTips, TitleRadical}

InitClean ==
    /\ fnIn \in StringsUpTo(CleanAlphabet, MaxCleanLen) \cup ExampleTitles
    /\ fnParts = <<>>
    /\ fnKind = ""
    /\ fnOut = NONE
    /\ fnDone = FALSE
    /\ FsIdle
    /\ ShIdle

ApplyCleanAndTitleCase ==
    /\ ~fnDone
    /\ fnOut' = cleanAndTitleCase(fnIn)
    /\ fnKind' = "cleanAndTitleCase"
    /\ fnDone' = TRUE
    /\ UNCHANGED <<fnIn, fnParts, fsVars, shVars>>

NextClean == ApplyCleanAndTitleCase

SpecClean == InitClean /\ [][NextClean]_vars

\* first letter upper, rest lower
StandardTitleCase(w) ==
    [i \in 1..Len(w) |-> IF i = 1 THEN UpperChar(w[i]) ELSE LowerChar(w[i])]

\* the casing the three rules give a word; all-uppercase is taken as "has no
\* lower-case letter", so that "3D" counts as an acronym as the rules say
ClaimedCasing(w) ==
    IF Len(w) \in 2..4 /\ (\A i \in 1..Len(w) : ~IsLower(w[i])) THEN w
    ELSE IF /\ \E i \in 1..Len(w) : IsLower(w[i])
            /\ \E i \in 1..Len(w) : IsUpper(w[i])
            /\ w # StandardTitleCase(w)
         THEN w
    ELSE StandardTitleCase(w)

\* the run of !?.,;: that ends s, whitespace after it ignored ("" if none)
EndingPunctuation(s) ==
    LET nonWs == {i \in 1..Len(s) : s[i] \notin SpaceChars}
        e == IF nonWs = {} THEN 0 ELSE CHOOSE i \in nonWs : \A j \in nonWs : j <= i
        starts == {i \in 1..(e + 1) : \A k \in i..e : IsTrailingPunct(s[k])}
    IN  SubSeq(s, Least(starts), e)

\* the words of s once everything but letters, digits and whitespace is gone
CleanWords(s) == Words(SelectSeq(s, LAMBDA c : IsAlnum(c) \/ c \in SpaceChars))

IsWordList(b) ==
    /\ \A i \in 1..Len(b) : IsAlnum(b[i]) \/ b[i] = " "
    /\ Len(b) > 0 => (b[1] # " " /\ b[Len(b)] # " ")
    /\ \A i \in 1..(Len(b) - 1) : ~(b[i] = " " /\ b[i+1] = " ")

\* C13: the cleaned title is a list of alphanumeric words separated by single
\* spaces, followed by exactly the run of !?.,;: that ended the input, and
\* nothing else
C13_CleanedShape ==
    (fnDone /\ fnKind = "cleanAndTitleCase") =>
        \E n \in 0..Len(fnOut) :
            /\ IsWordList(SubSeq(fnOut, 1, n))
            /\ SubSeq(fnOut, n + 1, Len(fnOut)) = EndingPunctuation(fnIn)

\* punctuation inside the title is dropped, the run at its end is kept, the
\* whitespace after the run is not
C13_Witness ==
    /\ fnDone /\ fnKind = "cleanAndTitleCase"
    /\ fnIn = <<"a","!","B","!"," ">>
    /\ fnOut = <<"a","B","!">>

-----------------------------------------------------------------------------
(* extractTitleFromContent applied to documents put together from chunks *)

MaxChunks == 3

\* the chunks, by name, as the text they stand for
ChunkText(c) ==
    CASE c = "h1"        -> H1(<<"A","b">>)
      [] c = "h1attr"    -> <<"<","H","1"," ","i","d","=","x",">">>
                                \o <<"C","d"," ","!">> \o LitH1Close
      [] c = "h1nested"  -> H1(<<"<","b",">","E","f","<","/","b",">">>)
      [] c = "h1empty"   -> H1(<<>>)
      [] c = "h1blank"   -> H1(<<" ">>)
      [] c = "title"     -> LitTitleOpen \o <<"G","h">> \o LitTitleClose
      [] c = "titlekey"  -> LitTitleKey \o <<" ","\"","I","j","\"">>
      [] c = "namekey"   -> LitNameKey \o <<"'","K","l","'">>
      [] c = "text"      -> <<"<","p",">","x","<","/","p",">">>
      [] c = "sub"       -> Div(LitSubheadline, <<" ","Z","z"," ">>)
      [] c = "head"      -> Div(LitHeadline, <<"T",":"," ","Y","y">>)
      [] c = "headplain" -> Div(LitHeadline, <<"X","x">>)
      [] c = "meta"      -> LitMeta \o <<" ">> \o LitNameAttr \o <<"\"">> \o LitDescription
                                \o <<"\""," ">> \o LitContentAttr \o <<"'","M","m","'",">">>
      [] c = "desckey"   -> LitDescriptionKey \o <<" ","\"","D","d","\"">>
      [] c = "subtitlekey" -> LitSubtitleKey \o <<"'","S","s","'">>
      [] c = "filenamekey" -> <<"f","i","l","e">> \o LitNameKey \o <<" ","'","F","n","'">>

Chunks == {"h1", "h1attr", "h1nested", "h1empty", "h1blank",
           "title", "titlekey", "namekey", "text"}

RECURSIVE Flatten(_)
Flatten(parts) ==
    IF Len(parts) = 0 THEN <<>> ELSE ChunkText(Head(parts)) \o Flatten(Tail(parts))

InitTitle ==
    /\ fnParts \in StringsUpTo(Chunks, MaxChunks)
    /\ fnIn = Flatten(fnParts)
    /\ fnKind \in {"tsx", "html"}
    /\ fnOut = NONE
    /\ fnDone = FALSE
    /\ FsIdle
    /\ ShIdle

ExtractTitle ==
    /\ ~fnDone
    /\ fnOut' = extractTitleFromContent(fnIn, fnKind)
    /\ fnDone' = TRUE
    /\ UNCHANGED <<fnIn, fnParts, fnKind, fsVars, shVars>>

NextTitle == ExtractTitle

SpecTitle == InitTitle /\ [][NextTitle]_vars

\* the cleaned title each chunk yields under the rule it belongs to
ChunkTitle(c) ==
    CASE c = "h1"       -> <<"A","b">>
      [] c = "h1attr"   -> <<"C","d","!">>
      [] c = "h1nested" -> <<"E","f">>
      [] c = "h1blank"  -> <<>>
      [] c = "title"    -> <<"G","h">>
      [] c = "titlekey" -> <<"I","j">>
      [] c = "namekey"  -> <<"K","l">>

\* the first chunk of fnParts that belongs to the set S, "" if there is none
FirstOf(S) ==
    LET at == {i \in 1..Len(fnParts) : fnParts[i] \in S}
    IN  IF at = {} THEN "" ELSE fnParts[Least(at)]

\* the headings whose content is plain text: the pattern of the heading rule
\* matches them ("h1empty" has no text and "h1nested" starts with a tag)
PlainHeadings == {"h1", "h1attr", "h1blank"}

\* what the rules after the heading rule yield for the chunks of fnParts
RestChainTitle ==
    IF fnKind = "html" /\ FirstOf({"title"}) # "" THEN ChunkTitle("title")
    ELSE IF FirstOf({"titlekey"}) # "" THEN ChunkTitle("titlekey")
    ELSE IF FirstOf({"namekey"}) # "" THEN ChunkTitle("namekey")
    ELSE NONE

\* what the ordered chain of title rules yields for the chunks of fnParts
ChainTitle ==
    IF FirstOf(PlainHeadings) # "" THEN ChunkTitle(FirstOf(PlainHeadings))
    ELSE RestChainTitle

\* C9: title extraction is an ordered first-match-wins chain: a matching level-1
\* heading wins for both kinds, then <title> (kind html only), then a title:
\* literal, then a name: literal, else the result is absent
C9_TitleChain == fnDone => fnOut = ChainTitle

\* a tsx document that starts with a <title> element: the title: literal wins
C9_Witness ==
    /\ fnDone /\ fnKind = "tsx"
    /\ fnParts = <<"title", "namekey", "titlekey">>
    /\ fnOut = <<"I","j">>

\* C10: the title comes from the first level-1 heading in document order, its
\* inner text with nested tags stripped, also when that heading has nested markup
C10_FirstHeadingWins ==
    (fnDone /\ FirstOf({"h1", "h1attr", "h1nested"}) # "")
        => fnOut = ChunkTitle(FirstOf({"h1", "h1attr", "h1nested"}))

EmptyHeadings == {"h1empty", "h1blank"}

\* C11: when every level-1 heading of the document is empty (nothing, or only
\* whitespace, between the tags) the heading rule counts as not matched and the
\* title is what the remaining rules yield: <title> for html, then the title:
\* literal, then the name: literal, else absent
C11_EmptyHeadingFallsThrough ==
    (fnDone /\ FirstOf(EmptyHeadings) # "" /\ FirstOf({"h1", "h1attr", "h1nested"}) = "")
        => fnOut = RestChainTitle

-----------------------------------------------------------------------------
(* extractDescriptionFromContent applied to documents put together from chunks *)

DescriptionChunks ==
    {"sub", "head", "headplain", "meta", "desckey", "subtitlekey", "h1", "text"}

InitDescription ==
    /\ fnParts \in StringsUpTo(DescriptionChunks, MaxChunks)
    /\ fnIn = Flatten(fnParts)
    /\ fnKind \in {"tsx", "html"}
    /\ fnOut = NONE
    /\ fnDone = FALSE
    /\ FsIdle
    /\ ShIdle

ExtractDescription ==
    /\ ~fnDone
    /\ fnOut' = extractDescriptionFromContent(fnIn, fnKind)
    /\ fnDone' = TRUE
    /\ UNCHANGED <<fnIn, fnParts, fnKind, fsVars, shVars>>

NextDescription == ExtractDescription

SpecDescription == InitDescription /\ [][NextDescription]_vars

\* the description each chunk yields under the rule it belongs to
ChunkDescription(c) ==
    CASE c = "sub"         -> <<"Z","z">>
      [] c = "head"        -> <<"Y","y">>
      [] c = "headplain"   -> <<"X","x">>
      [] c = "meta"        -> <<"M","m">>
      [] c = "desckey"     -> <<"D","d">>
      [] c = "subtitlekey" -> <<"S","s">>

\* what the ordered chain of description rules yields for the chunks of fnParts
ChainDescription ==
    IF FirstOf({"sub"}) # "" THEN ChunkDescription("sub")
    ELSE IF FirstOf({"head", "headplain"}) # ""
         THEN ChunkDescription(FirstOf({"head", "headplain"}))
    ELSE IF FirstOf({"meta"}) # "" THEN ChunkDescription("meta")
    ELSE IF FirstOf({"desckey"}) # "" THEN ChunkDescription("desckey")
    ELSE IF FirstOf({"subtitlekey"}) # "" THEN ChunkDescription("subtitlekey")
    ELSE NONE

\* C14: description extraction is an ordered first-match-wins chain that takes
\* no notice of the title rules: the subheadline element, then the headline
\* element without its label up to the first colon, then the meta description,
\* then a description: literal, then a subtitle: literal, else absent
C14_DescriptionChain == fnDone => fnOut = ChainDescription

\* a labelled headline wins over the description: literal that comes before it
\* in the document, which also has a level-1 heading
C14_Witness ==
    /\ fnDone
    /\ fnParts = <<"desckey", "h1", "head">>
    /\ fnOut = <<"Y","y">>

-----------------------------------------------------------------------------
(* Claims about the pipeline *)

\* the step just taken was processImport of a supported file
Imported == last.op = "import" /\ ~last.result.skipped

\* the directory processImport just wrote to, as it is on disk now
ImportedDir == projects[last.result.projectName]

\* the kind of the file processImport just handled
ImportedKind == typeOf(extname(last.file))

\* C1: after any import the name of every project the importer created or
\* updated, as directory and as persisted name field, is in slug form
C1_ImportedNameIsSlug ==
    Imported =>
        /\ MatchesSlugPattern(last.result.projectName)
        /\ (ImportedDir.json = "valid" => MatchesSlugPattern(ImportedDir.meta.name))

\* C4: an import into a project that has a project.json writes back the existing
\* record with only name and type replaced by the derived values
C4_MergeKeepsOtherKeys ==
    (Imported /\ last.result.before.json = "valid") =>
        LET old == last.result.before.meta
        IN  /\ ImportedDir.json = "valid"
            /\ DOMAIN ImportedDir.meta = DOMAIN old \cup {"name", "type"}
            /\ ImportedDir.meta.name = last.result.projectName
            /\ ImportedDir.meta.type = ImportedKind
            /\ \A k \in DOMAIN old \ {"name", "type"} : ImportedDir.meta[k] = old[k]

\* a re-import that derived another title than the one persisted, into a record
\* that carries a hand-added key
C4_Witness ==
    /\ Imported /\ last.result.before.json = "valid"
    /\ "author" \in DOMAIN last.result.before.meta
    /\ last.result.projectTitle # last.result.before.meta.title
    /\ ImportedDir.meta.title = last.result.before.meta.title

\* C5 as stated: a new record is {name, title, description: the extracted
\* description if one was found, otherwise "Interactive " + title, type}
C5_NewRecordAsStated ==
    (Imported /\ last.result.before.json = "absent") =>
        ImportedDir.meta =
            [name        |-> last.result.projectName,
             title       |-> last.result.projectTitle,
             description |-> IF last.result.extractedDescription # NONE
                             THEN last.result.extractedDescription
                             ELSE Interactive \o last.result.projectTitle,
             type        |-> ImportedKind]

\* C5 amended: a new record is {name, title, description: the extracted
\* description if one was found and is not empty, otherwise "Interactive " +
\* title, type}
C5_NewRecord ==
    (Imported /\ last.result.before.json = "absent") =>
        /\ ImportedDir.json = "valid"
        /\ ImportedDir.meta =
            [name        |-> last.result.projectName,
             title       |-> last.result.projectTitle,
             description |-> IF last.result.extractedDescription \notin {NONE, <<>>}
                             THEN last.result.extractedDescription
                             ELSE Interactive \o last.result.projectTitle,
             type        |-> ImportedKind]

\* a new project whose description was taken from the content
C5_Witness ==
    /\ Imported /\ last.result.before.json = "absent"
    /\ last.result.extractedDescription = <<"Z","z">>
    /\ ImportedDir.meta.description = <<"Z","z">>

\* C6 as stated: the type persisted for a project never changes once the
\* project exists
C6_KindImmutable ==
    (Imported /\ last.result.before.json = "valid" /\ ImportedDir.json = "valid")
        => ImportedDir.meta.type = last.result.before.meta.type

\* the step just taken was a buildProject that found a readable project.json
Built == last.op = "build" /\ last.before.json = "valid"

\* C6 amended: every import leaves the kind of the file just imported as the
\* persisted type (so the type changes when a file of the other extension is
\* imported into the project), and a build never changes the persisted type
C6_KindFollowsLastImport ==
    /\ (Imported /\ ImportedDir.json = "valid") => ImportedDir.meta.type = ImportedKind
    /\ Built => projects[last.currentProjectName].meta.type = last.before.meta.type

\* an html project just re-imported from a .tsx file
C6_Witness ==
    /\ Imported /\ last.result.before.json = "valid"
    /\ last.result.before.meta.type = "html"
    /\ ImportedDir.meta.type = "tsx"

\* C7: with no hand edits, every project.json under projects/<d>/ has name = d
C7_NameMatchesDirectory ==
    edits = 0 =>
        \A d \in projectDirs : projects[d].json = "valid" => projects[d].meta.name = d

\* two projects, one named by the filename fallback, after a build step
C7_Witness ==
    /\ edits = 0
    /\ last.op = "build" /\ ~last.skipped
    /\ <<"A"," ","b">> \in projectDirs
    /\ Cardinality(projectDirs) = 2

\* C8: when build finds name n # d in projects/d/project.json and projects/n
\* does not exist, it renames first: afterwards projects/d is gone, projects/n
\* holds the project, builds/d is gone and only builds/n was written, with the
\* README.txt once the build step succeeded
C8_RenameBeforeBuild ==
    LET d == last.dir
        n == last.before.meta.name
    IN  (Built /\ n # d /\ n \notin last.dirsBefore /\ n # <<>>) =>
            /\ d \notin DOMAIN projects
            /\ n \in DOMAIN projects
            /\ projects[n] = last.before
            /\ d \notin DOMAIN builds
            /\ \A b \in DOMAIN builds \ {n} :
                   b \in DOMAIN last.buildsBefore /\ builds[b] = last.buildsBefore[b]
            /\ \A b \in DOMAIN last.buildsBefore \ {d, n} : b \in DOMAIN builds
            /\ ~last.threw =>
                   /\ n \in DOMAIN builds
                   /\ "README.txt" \in DOMAIN builds[n]
                   /\ builds[n]["README.txt"] = generateReadme(last.before.meta)
                   /\ "index.html" \in DOMAIN builds[n]

\* a project that had been built under its old name was renamed and rebuilt
C8_Witness ==
    /\ Built /\ last.before.meta.name # last.dir
    /\ last.before.meta.name \notin last.dirsBefore
    /\ last.dir \in DOMAIN last.buildsBefore
    /\ ~last.threw
    /\ last.before.meta.name \in DOMAIN builds

\* the content of the file processImport just moved into the project directory
ImportedContent ==
    ImportedDir.files[IF ImportedKind = "tsx" THEN "index.tsx" ELSE "index.html"]

\* a non-empty IMPORT_TITLE was given to the run of the step just taken
Overridden == Imported /\ last.override \notin {NONE, <<>>}

\* C15 as stated: a non-empty override beats every title rule (name is
\* slugify(override), title is the override) while the description still comes
\* from the description rules, "Interactive " + override being used only when
\* no rule matched
C15_OverrideAsStated ==
    Overridden =>
        /\ last.result.projectName = slugify(last.override)
        /\ last.result.projectTitle = last.override
        /\ last.result.extractedDescription =
               extractDescriptionFromContent(ImportedContent, ImportedKind)
        /\ last.result.before.json = "absent" =>
               /\ ImportedDir.meta.name = slugify(last.override)
               /\ ImportedDir.meta.title = last.override
               /\ ImportedDir.meta.description =
                      IF last.result.extractedDescription # NONE
                      THEN last.result.extractedDescription
                      ELSE Interactive \o last.override

\* C15 amended: a non-empty override beats every title rule (name is
\* slugify(override), title is the override) while the description still comes
\* from the description rules, "Interactive " + override being used when no
\* rule matched or the matched description is empty
C15_OverrideWins ==
    Overridden =>
        /\ last.result.projectName = slugify(last.override)
        /\ last.result.projectTitle = last.override
        /\ last.result.extractedDescription =
               extractDescriptionFromContent(ImportedContent, ImportedKind)
        /\ last.result.before.json = "absent" =>
               /\ ImportedDir.meta.name = slugify(last.override)
               /\ ImportedDir.meta.title = last.override
               /\ ImportedDir.meta.description =
                      IF last.result.extractedDescription \notin {NONE, <<>>}
                      THEN last.result.extractedDescription
                      ELSE Interactive \o last.override

\* an override given for a file whose heading yields another title and whose
\* subheadline yields the description
C15_Witness ==
    /\ Overridden /\ last.result.before.json = "absent"
    /\ last.result.extractedTitle = <<"A","B">>
    /\ ImportedDir.meta.title = <<"a","_","B">>
    /\ ImportedDir.meta.description = <<"Z","z">>

\* the filename without its extension
ImportedStem == SubSeq(last.file, 1, Len(last.file) - Len(extname(last.file)))

\* neither a non-empty override nor a non-empty extracted title
NothingToNameBy ==
    /\ last.override \in {NONE, <<>>}
    /\ last.result.extractedTitle \in {NONE, <<>>}

\* s with every hyphen turned into a space and the first letter of every
\* hyphen-separated segment uppercased
HyphensToSpaces(s) ==
    [i \in 1..Len(s) |->
        IF s[i] = "-" THEN " "
        ELSE IF i = 1 \/ s[i-1] = "-" THEN UpperChar(s[i])
        ELSE s[i]]

\* C16: the filename fallback is used exactly when there is no override and no
\* extracted title: then the title is the filename stem split on hyphens, each
\* segment capitalised, joined by single spaces, and the name is the stem;
\* otherwise name and title come from the override or the extracted title
C16_FilenameFallback ==
    Imported =>
        /\ NothingToNameBy =>
               /\ last.result.projectTitle = HyphensToSpaces(ImportedStem)
               /\ last.result.projectName = ImportedStem
        /\ ~NothingToNameBy =>
               /\ last.result.projectTitle =
                      (IF last.override \notin {NONE, <<>>} THEN last.override
                       ELSE last.result.extractedTitle)
               /\ last.result.projectName = slugify(last.result.projectTitle)

\* a hyphenated filename named a new project
C16_Witness ==
    /\ Imported /\ NothingToNameBy
    /\ last.file = FileHyphen
    /\ last.result.before.json = "absent"
    /\ ImportedDir.meta.title = <<"C"," ","D">>
    /\ ImportedDir.meta.name = <<"c","-","d">>

\* the file has one of the two extensions the importer handles
HasImportExtension(f) ==
    \E n \in 1..(Len(f) - 1) :
        SubSeq(f, n + 1, Len(f)) \in {<<".","t","s","x">>, <<".","h","t","m","l">>}

\* C17: a file whose extension is neither .tsx nor .html stays in import/
\* unchanged through every step, a run lists exactly the files with one of the
\* two extensions, and no step of a run writes under projects/ for another file
C17_UnsupportedSkipped ==
    [][ /\ \A f \in DOMAIN importDir :
               ~HasImportExtension(f) =>
                   f \in DOMAIN importDir' /\ importDir'[f] = importDir[f]
        /\ (run = "idle" /\ run' = "import") =>
               Range(queue') = {f \in DOMAIN importDir : HasImportExtension(f)}
        /\ (run = "import" /\ projects' # projects) =>
               /\ HasImportExtension(Head(queue))
               /\ last'.file = Head(queue)
      ]_vars

\* a run is over, its supported file is imported and the .txt file is all that
\* is left in import/
C17_Witness ==
    /\ Imported /\ run = "idle" /\ ~last.result.threw
    /\ DOMAIN importDir = {FileNotes}
    /\ importDir[FileNotes] = DocPlain

\* C19: when the project.json in the target directory cannot be parsed, the
\* import of the file fails and the project.json stays as it was
C19_CorruptLeftAlone ==
    (Imported /\ last.result.before.json = "corrupt") =>
        /\ last.result.threw
        /\ run = "idle"
        /\ ImportedDir.json = "corrupt"
        /\ ImportedDir.meta = last.result.before.meta

\* an import hit a project.json that had been damaged by hand
C19_Witness ==
    /\ Imported /\ last.result.before.json = "corrupt"
    /\ last.result.threw
    /\ edits = 1

\* C20: a newly created record never has the empty string as its title: either
\* the title written is non-empty or the import failed and wrote no project.json
C20_NoEmptyTitle ==
    (Imported /\ last.result.before.json = "absent") =>
        \/ ImportedDir.json = "valid" /\ ImportedDir.meta.title # <<>>
        \/ last.result.threw /\ ImportedDir.json = "absent"

\* the heading of the file gave the empty title and the filename stepped in
C20_Witness ==
    /\ Imported /\ last.result.before.json = "absent"
    /\ last.result.extractedTitle = <<>>
    /\ last.override = <<>>
    /\ ImportedDir.meta.title # <<>>

-----------------------------------------------------------------------------
(* Import runs over an import/ that holds several files, with projects/ as an *)
(* earlier import, and possibly a hand edit, left it                          *)

MaxBatch == 3

\* every import/ that holds up to MaxBatch of the files of Dropped
BatchImportDirs ==
    UNION { {f \in [S -> {d.content : d \in Dropped}] :
                \A n \in S : [name |-> n, content |-> f[n]] \in Dropped} :
            S \in {T \in SUBSET {d.name : d \in Dropped} : Cardinality(T) <= MaxBatch} }

\* projects/ after ab.html was imported
ProjectsAfterImport ==
    Put(EmptyDir, <<"a","b">>, processImport(FileAbHtml, DocAb, NONE, EmptyDir).after)

\* projects/ : empty, after one import, and after that import's project.json
\* was damaged by hand
BatchProjects ==
    { EmptyDir,
      ProjectsAfterImport,
      [d \in DOMAIN ProjectsAfterImport |-> editMetadata(ProjectsAfterImport[d], "corrupt")] }

InitBatch ==
    /\ FnIdle
    /\ importDir \in BatchImportDirs
    /\ projects \in BatchProjects
    /\ builds = EmptyDir
    /\ run = "idle"
    /\ queue = <<>>
    /\ env = NONE
    /\ last = NoStep
    /\ drops = 0
    /\ edits = 0
    /\ cwd = {}
    /\ done = <<>>
    /\ ShIdle

NextBatch == StartImport \/ ProcessImport

SpecBatch == InitBatch /\ [][NextBatch]_vars

\* C18: the files of a batch are processed one at a time in listing order, and
\* a failure on one file ends the batch: the files listed after it stay in
\* import/ as they are and get no project directory or metadata, and what the
\* files before it left under projects/ stays as it is
C18_FailureAbortsBatch ==
    [][ (run = "import" /\ last'.op = "import") =>
            /\ last'.file = Head(queue)
            /\ ~last'.result.threw => queue' = Tail(queue)
            /\ last'.result.threw =>
                   /\ run' = "idle" /\ queue' = <<>>
                   /\ \A k \in 2..Len(queue) :
                          /\ queue[k] \in DOMAIN importDir'
                          /\ importDir'[queue[k]] = importDir[queue[k]]
                   /\ DOMAIN projects' = DOMAIN projects \cup {last'.result.projectName}
                   /\ \A d \in DOMAIN projects \ {last'.result.projectName} :
                          projects'[d] = projects[d]
      ]_vars

\* a batch was aborted by its second file: the first file has its project, a
\* later file is still in import/
C18_Witness ==
    /\ last.op = "import" /\ last.result.threw /\ run = "idle"
    /\ \E f \in DOMAIN importDir : HasImportExtension(f)
    /\ \E d \in DOMAIN projects :
           d # last.result.projectName /\ projects[d].json = "valid"

\* the steps of the run so far that derived project name p
Deriving(p) == {k \in 1..Len(done) : done[k].result.projectName = p}

\* the largest member of a non-empty set of numbers
Greatest(S) == CHOOSE n \in S : \A m \in S : m <= n

\* the index file a step wrote
IndexFile(k) == IF done[k].result.type = "tsx" THEN "index.tsx" ELSE "index.html"

\* the description a step derived for a new project.json
DerivedDescription(k) ==
    IF done[k].result.extractedDescription \in {NONE, <<>>}
    THEN <<"I","n","t","e","r","a","c","t","i","v","e"," ">> \o done[k].result.projectTitle
    ELSE done[k].result.extractedDescription

\* two files of one extension that derived one name, the i-th before the j-th
SameSlug(i, j) ==
    /\ i < j
    /\ done[i].result.type = done[j].result.type
    /\ done[i].result.projectName = done[j].result.projectName

\* C23 as stated: whenever two files of one extension derived the same slug in
\* a batch, after the run neither raised an error, the index file holds the
\* later file's content, project.json has the title and description derived
\* from the earlier file, and the earlier file's content is nowhere under
\* import/ or projects/
C23_MergeAsStated ==
    (run = "idle" /\ last.op = "import") =>
        \A i, j \in 1..Len(done) :
            SameSlug(i, j) =>
                LET p == done[i].result.projectName
                IN  /\ ~done[i].result.threw /\ ~done[j].result.threw
                    /\ projects[p].files[IndexFile(j)] = done[j].content
                    /\ projects[p].json = "valid"
                    /\ projects[p].meta.title = done[i].result.projectTitle
                    /\ projects[p].meta.description = DerivedDescription(i)
                    /\ \A f \in DOMAIN importDir : importDir[f] # done[i].content
                    /\ \A d \in DOMAIN projects : \A x \in DOMAIN projects[d].files :
                           projects[d].files[x] # done[i].content

\* the tsx steps of the run so far that derived name p after step k
LaterTsx(p, k) == {m \in Deriving(p) : m > k /\ done[m].result.type = "tsx"}

\* C23 amended: when two or more files of one extension derived, in one batch,
\* the same slug and no directory of that name existed before the batch, no
\* step raised an error and the files were merged into one directory: the index
\* file holds the content of the last of them (for html files, until a .tsx
\* file that derives the same slug is processed, whose generated index.html
\* replaces it), project.json has the title and description derived from the
\* first file of the batch that derived the slug, and an earlier file is gone
\* from import/, its content no longer in the project directory unless
\* another of the merged files had the same content
C23_SameSlugMerges ==
    last.op = "import" =>
        \A i, j \in 1..Len(done) :
            LET p == done[i].result.projectName
                first == Least(Deriving(p))
                final == Greatest({k \in Deriving(p) : done[k].result.type = done[i].result.type})
            IN  (SameSlug(i, j) /\ done[first].result.before.json = "absent") =>
                    /\ \A k \in Deriving(p) : ~done[k].result.threw
                    /\ p \in DOMAIN projects /\ projects[p].json = "valid"
                    /\ projects[p].files[IndexFile(i)] =
                           IF done[i].result.type = "html" /\ LaterTsx(p, final) # {}
                           THEN LitTitleOpen
                                    \o done[Greatest(LaterTsx(p, final))].result.projectTitle
                                    \o LitTitleClose
                           ELSE done[final].content
                    /\ projects[p].meta.title = done[first].result.projectTitle
                    /\ projects[p].meta.description = DerivedDescription(first)
                    /\ done[i].file \notin DOMAIN importDir
                    /\ done[i].content \notin {done[k].content : k \in Deriving(p) \ {i}} =>
                           \A x \in DOMAIN projects[p].files :
                               projects[p].files[x] # done[i].content

\* ab.html with <h1>Ab</h1> and then c-d.html with <h1>AB</h1> and a subheadline
\* were imported into a new projects/ab: index.html is the second file, title
\* and description are those of the first
C23_Witness ==
    /\ run = "idle" /\ last.op = "import" /\ Len(done) >= 2
    /\ SameSlug(1, 2)
    /\ done[1].result.before.json = "absent"
    /\ done[1].result.projectTitle = <<"A","b">>
    /\ done[2].result.projectTitle = <<"A","B">>
    /\ done[2].result.extractedDescription = <<"Z","z">>
    /\ projects[<<"a","b">>].meta.title = <<"A","b">>
    /\ projects[<<"a","b">>].files["index.html"] = DocAB

-----------------------------------------------------------------------------
(* extractTitleFromContent applied to documents with no heading, no <title>
   and no title: or name: key, only keys that end in those letters *)

TitleKeyChunks == {"subtitlekey", "filenamekey", "text", "sub", "meta"}

InitTitleKeys ==
    /\ fnParts \in StringsUpTo(TitleKeyChunks, MaxChunks)
    /\ fnIn = Flatten(fnParts)
    /\ fnKind \in {"tsx", "html"}
    /\ fnOut = NONE
    /\ fnDone = FALSE
    /\ FsIdle
    /\ ShIdle

NextTitleKeys == ExtractTitle

SpecTitleKeys == InitTitleKeys /\ [][NextTitleKeys]_vars

\* C27: for a document with no level-1 heading, no <title> and no key that is
\* exactly title or name, the extractor returns absent, also when the document
\* has a quoted literal under subtitle: or filename:
C27_LongerKeysIgnored ==
    fnDone => fnOut = NONE

-----------------------------------------------------------------------------
(* build: README.txt, skipped renames, the temporary vite config *)

\* buildProject reached its "Successfully built" message in the step just taken
BuiltOk == Built /\ ~last.skipped /\ ~last.threw

\* C22: every project reported as successfully built has, in its build
\* directory, a README.txt that is exactly title, newline, description with no
\* trailing newline; it is there next to what the type-specific build step
\* left, also for a tsx build, which empties the output directory
C22_ReadmeContent ==
    BuiltOk =>
        LET b == builds[last.currentProjectName]
            metadata == last.before.meta
        IN  /\ "README.txt" \in DOMAIN b
            /\ b["README.txt"] = metadata.title \o <<"\n">> \o metadata.description
            /\ metadata.type = "tsx" =>
                   DOMAIN b = {"index.html", "assets/index.js", "README.txt"}

\* a tsx project built before is built again: vite empties builds/<name>, README.txt
\* included, and the README.txt is written anew
C22_Witness ==
    /\ BuiltOk
    /\ last.before.meta.type = "tsx"
    /\ last.currentProjectName \in DOMAIN last.buildsBefore
    /\ "README.txt" \in DOMAIN last.buildsBefore[last.currentProjectName]
    /\ "README.txt" \in DOMAIN builds[last.currentProjectName]

\* C24: as long as project.json files are written by imports only, every tsx
\* project's generated index.html carries, as its <title>, the title field of
\* the project's project.json
C24_HtmlTitleIsMetadataTitle ==
    edits = 0 =>
        \A name \in DOMAIN projects :
            (projects[name].json = "valid" /\ projects[name].meta.type = "tsx") =>
                /\ "index.html" \in DOMAIN projects[name].files
                /\ projects[name].files["index.html"] =
                       LitTitleOpen \o projects[name].meta.title \o LitTitleClose

\* the build step about to be taken finds a name in project.json that differs
\* from the directory name while projects/<that name> exists
RenameBlocked ==
    /\ run = "build" /\ queue # <<>>
    /\ projects[Head(queue)].json = "valid"
    /\ projects[Head(queue)].meta.name # Head(queue)
    /\ \/ projects[Head(queue)].meta.name \in DOMAIN projects
       \/ projects[Head(queue)].meta.name = <<>>

\* C25: when build processes directory d whose project.json names n # d and
\* projects/n exists, the rename is skipped and nothing is moved, merged or
\* deleted: projects/ is left as it was, no other build directory changes,
\* builds/d is still there, and unless the bundler fails the project is built
\* into builds/d and reported as successfully built
C25_BlockedRenameBuildsInPlace ==
    [][(RenameBlocked /\ last'.op = "build") =>
          /\ projects' = projects
          /\ last'.dir = Head(queue) /\ ~last'.renamed
          /\ last'.currentProjectName = Head(queue)
          /\ \A b \in DOMAIN builds \ {Head(queue)} :
                 b \in DOMAIN builds' /\ builds'[b] = builds[b]
          /\ DOMAIN builds' = DOMAIN builds \cup {Head(queue)}
          /\ ~last'.threw =>
                 /\ ~last'.skipped
                 /\ "index.html" \in DOMAIN builds'[Head(queue)]
                 /\ builds'[Head(queue)]["README.txt"] =
                        projects[Head(queue)].meta.title \o <<"\n">>
                            \o projects[Head(queue)].meta.description]_vars

\* a project built before got the name of another existing project by hand
\* and was built again under its old directory name
C25_Witness ==
    /\ BuiltOk
    /\ last.before.meta.name # last.dir
    /\ last.before.meta.name \in last.dirsBefore
    /\ last.dir \in DOMAIN last.buildsBefore
    /\ last.dir \in DOMAIN projects /\ last.dir \in DOMAIN builds
    /\ last.before.meta.name \in DOMAIN builds

\* the build step just taken was the build of a tsx project
BuiltTsx == Built /\ ~last.skipped /\ last.before.meta.type = "tsx"

\* C26: after the build of a tsx project, whether the bundler succeeded or
\* failed, .vite.config.<project>.ts is not in the working directory (nothing
\* but parent-README.txt is); when the bundler failed the run is over, the
\* directories still listed are not built, and the step wrote no README.txt:
\* the build directory holds one only if it held the very same one before
C26_TempConfigRemoved ==
    BuiltTsx =>
        /\ LitViteConfig \o last.currentProjectName \o ExtTs \notin cwd
        /\ cwd = {ParentReadme}
        /\ last.threw =>
               /\ run = "idle" /\ queue = <<>>
               /\ LET name == last.currentProjectName
                  IN  "README.txt" \in DOMAIN builds[name] =>
                          /\ name \in DOMAIN last.buildsBefore
                          /\ builds[name] = last.buildsBefore[name]

\* the bundler failed on a tsx project while other directories were still listed
C26_Witness ==
    /\ BuiltTsx /\ last.threw
    /\ last.rest # <<>>
    /\ \A d \in Range(last.rest) : d \notin DOMAIN builds

-----------------------------------------------------------------------------
(* import: every file is moved, once *)

\* an import run has just completed without an error
ImportComplete ==
    /\ run = "idle" /\ last.op = "import"
    /\ \A i \in 1..Len(done) : ~done[i].result.threw

\* C30: a step of an import run that succeeds moves its file out of import/
\* into projects/<name>/index.<ext>; when the run completes without an error
\* import/ holds no .tsx or .html file, and an import started right then finds
\* nothing to import and changes nothing under import/, projects/ or builds/
C30_ImportMovesOnce ==
    [][ /\ (run = "import" /\ last'.op = "import" /\ ~last'.result.threw) =>
              /\ Head(queue) \notin DOMAIN importDir'
              /\ last'.result.projectName \in DOMAIN projects'
              /\ LET files == projects'[last'.result.projectName].files
                     index == IF last'.result.type = "tsx" THEN "index.tsx" ELSE "index.html"
                 IN  index \in DOMAIN files /\ files[index] = importDir[Head(queue)]
        /\ ImportComplete' => \A f \in DOMAIN importDir' : ~HasImportExtension(f)
        /\ ImportComplete =>
              /\ run' # "import"
              /\ last'.op = "import-none" =>
                     projects' = projects /\ importDir' = importDir /\ builds' = builds
      ]_vars

\* import ran again right after a run that had moved two files, and found nothing
C30_Witness ==
    /\ last.op = "import-none" /\ last.after = "import"
    /\ drops = 2 /\ Cardinality(DOMAIN projects) = 2
    /\ \A p \in DOMAIN projects : projects[p].json = "valid"
    /\ importDir = EmptyDir

-----------------------------------------------------------------------------
(* build-all runs over a projects/ with several directories whose project.json
   names may differ from the directory names *)

DirAb == <<"a","b">>
DirZz == <<"z","z">>
DirCd == <<"c","-","d">>
NameQ == <<"q">>

\* a project directory as an import into directory d left it, with the name
\* in project.json set to n
BuildAllDir(d, n, type) ==
    [json  |-> "valid",
     meta  |-> [name |-> n, title |-> d, description |-> Interactive \o d, type |-> type],
     files |-> importedFiles(EmptyDir, type, DocPlain, d)]

\* what projects/<d> may be before the run
BuildAllDirs(d) ==
    {BuildAllDir(d, n, type) : n \in {DirAb, DirZz, DirCd, NameQ}, type \in {"tsx", "html"}}
        \cup {NewDir, editMetadata(BuildAllDir(d, d, "html"), "corrupt")}

\* every projects/ with some of the three directories
BuildAllProjects ==
    UNION { {f \in [S -> UNION {BuildAllDirs(d) : d \in S}] : \A d \in S : f[d] \in BuildAllDirs(d)} :
            S \in SUBSET {DirAb, DirZz, DirCd} }

\* builds/ as an earlier build of the directories under their names left it
BuildAllBuilds(dirs) ==
    [d \in {x \in DOMAIN dirs : dirs[x].json = "valid"} |->
        Put(EmptyDir, "README.txt", <<"o","l","d">>)]

InitBuildAll ==
    /\ FnIdle
    /\ ShIdle
    /\ importDir = EmptyDir
    /\ projects \in BuildAllProjects
    /\ builds \in {EmptyDir, BuildAllBuilds(projects)}
    /\ run = "idle"
    /\ queue = <<>>
    /\ env = NONE
    /\ last = NoStep
    /\ drops = 0
    /\ edits = 0
    /\ cwd = {}
    /\ done = <<>>

NextBuildAll == StartBuildAll \/ BuildProject

SpecBuildAll == InitBuildAll /\ [][NextBuildAll]_vars

\* every project.json that can be read names the directory it is in
NoMismatch ==
    \A d \in projectDirs : projects[d].json = "valid" => projects[d].meta.name = d

\* no directory was processed twice, no two steps built under one name, and
\* nothing built so far is still listed
NoClash ==
    /\ \A i, j \in 1..Len(done) :
           i < j => /\ done[i].dir # done[j].dir
                    /\ done[i].currentProjectName # done[j].currentProjectName
    /\ \A i \in 1..Len(done) :
           done[i].dir \notin Range(queue) /\ done[i].currentProjectName \notin Range(queue)

\* what every step of the run so far built is in builds/ as the step left it
AllBuilt ==
    \A k \in 1..Len(done) :
        (done[k].json = "valid" /\ ~done[k].threw) =>
            /\ done[k].currentProjectName \in DOMAIN builds
            /\ done[k].currentProjectName \in DOMAIN projects
            /\ projects[done[k].currentProjectName].meta = done[k].meta
            /\ "index.html" \in DOMAIN builds[done[k].currentProjectName]
            /\ builds[done[k].currentProjectName]["README.txt"] =
                   done[k].meta.title \o <<"\n">> \o done[k].meta.description

\* a build-all run is over in which no step failed and no rename was skipped
CleanRunOver ==
    /\ run = "idle" /\ last.op = "build"
    /\ Len(done) = Cardinality(projectDirs)
    /\ \A k \in 1..Len(done) :
           /\ ~done[k].threw
           /\ (done[k].json = "valid" /\ done[k].meta.name # done[k].dir) => done[k].renamed

-----------------------------------------------------------------------------
(* deploy-projects.sh: dep.log is what the script did on the server, in order;
   each command's exit status is an input *)

\* projects=($(ls -1 "$BUILDS_DIR")): the names of the listing, split into words
RECURSIVE splitListing(_)
splitListing(names) ==
    IF names = <<>> THEN <<>> ELSE Words(Head(names)) \o splitListing(Tail(names))

\* CF_ZONE_ID and CF_API_TOKEN: both set, or one of them unset
Credentials == {"set", "no-zone", "no-token"}

\* the script up to the check for builds/, with its arguments and environment
DeployStartWith(specificProject) ==
    \E creds \in Credentials :
        /\ dep.pc = "idle"
        /\ run = "idle"
        /\ dep' = [pc |-> "parent", specific |-> specificProject, creds |-> creds,
                   selected |-> <<>>, queue |-> <<>>, log |-> <<>>]
        /\ UNCHANGED <<fnVars, fsVars, pub>>

\* deploy-projects.sh [project]
DeployStart ==
    \E specificProject \in {NONE} \cup DOMAIN builds \cup {DirZz} :
        DeployStartWith(specificProject)

\* the parent directory, the parent README and the choice of what to deploy
DeployParent ==
    \E sftp \in {"ok", "fail"}, scp \in {"ok", "fail"}, listing \in Listings(DOMAIN builds) :
        /\ dep.pc = "parent"
        /\ LET readme == ParentReadme \in cwd
               uploaded == IF sftp = "ok" /\ readme
                           THEN <<[ev |-> "parent-readme", project |-> NONE, ok |-> scp = "ok"]>>
                           ELSE <<>>
               broken == sftp = "fail" \/ (readme /\ scp = "fail")
               selected == IF dep.specific # NONE THEN <<dep.specific>>
                           ELSE splitListing(listing)
               \* [ -z "$(ls -A $BUILDS_DIR)" ]: exit 1
               none == dep.specific = NONE /\ DOMAIN builds = {}
           IN  dep' = [dep EXCEPT !.log = uploaded,
                                  !.selected = IF broken \/ none THEN <<>> ELSE selected,
                                  !.queue = IF broken \/ none THEN <<>> ELSE selected,
                                  !.pc = IF broken \/ none THEN "failed" ELSE "projects"]
        /\ UNCHANGED <<fnVars, fsVars, pub>>

\* deploy_project: the events of one call, the last one failed when it returns 1
\* or a command of it fails
deploy_project(project_name, blds, sftp, scp) ==
    IF project_name \notin DOMAIN blds
    THEN <<[ev |-> "check", project |-> project_name, ok |-> FALSE]>>
    ELSE IF "README.txt" \notin DOMAIN blds[project_name]
    THEN <<[ev |-> "check", project |-> project_name, ok |-> FALSE]>>
    ELSE IF sftp = "fail"
    THEN <<[ev |-> "mkdir", project |-> project_name, ok |-> FALSE]>>
    ELSE <<[ev |-> "mkdir", project |-> project_name, ok |-> TRUE],
           [ev |-> "upload", project |-> project_name, ok |-> scp = "ok"]>>

\* one call of deploy_project; under set -e a failure in it ends the script
DeployProject ==
    \E sftp \in {"ok", "fail"}, scp \in {"ok", "fail"} :
        /\ dep.pc = "projects"
        /\ dep.queue # <<>>
        /\ \E events \in {deploy_project(Head(dep.queue), builds, sftp, scp)} :
               dep' = [dep EXCEPT !.log = dep.log \o events,
                                  !.queue = IF events[Len(events)].ok THEN Tail(dep.queue)
                                            ELSE <<>>,
                                  !.pc = IF ~events[Len(events)].ok THEN "failed"
                                         ELSE IF Len(dep.queue) = 1 THEN "purge"
                                         ELSE "projects"]
        /\ UNCHANGED <<fnVars, fsVars, pub>>

\* the Cloudflare purge: curl answers with success, answers with a refusal, or
\* exits with an error, which under set -e ends the script at the assignment
DeployPurge ==
    \E curl \in {"success", "refused", "error"} :
        /\ dep.pc = "purge"
        /\ dep' = [dep EXCEPT
                      !.log = IF dep.creds = "set"
                              THEN dep.log \o <<[ev |-> "purge", project |-> NONE,
                                                 ok |-> curl = "success"]>>
                              ELSE dep.log \o <<[ev |-> "purge-skipped", project |-> NONE,
                                                 ok |-> TRUE]>>,
                      !.pc = IF dep.creds = "set" /\ curl = "error" THEN "failed" ELSE "done"]
        /\ UNCHANGED <<fnVars, fsVars, pub>>

DirSp == <<"z"," ","z">>

BuildGood == [x \in {"index.html", "README.txt"} |-> IF x = "index.html" THEN DocPlain ELSE <<"o","l","d">>]
BuildNoReadme == [x \in {"index.html"} |-> DocPlain]

\* builds/ with some of three build directories, one of them with a space in
\* its name, each with or without its README.txt
DeployBuilds ==
    UNION { [S -> {BuildGood, BuildNoReadme}] : S \in SUBSET {DirAb, DirZz, DirSp} }

InitDeploy ==
    /\ FnIdle
    /\ ShIdle
    /\ importDir = EmptyDir
    /\ projects = EmptyDir
    /\ builds \in DeployBuilds
    /\ run = "idle"
    /\ queue = <<>>
    /\ env = NONE
    /\ last = NoStep
    /\ drops = 0
    /\ edits = 0
    /\ cwd \in {{}, {ParentReadme}}
    /\ done = <<>>

NextDeploy == DeployStart \/ DeployParent \/ DeployProject \/ DeployPurge

SpecDeploy == InitDeploy /\ [][NextDeploy]_vars

\* builds/<p> and its README.txt are there
Deployable(p) == p \in DOMAIN builds /\ "README.txt" \in DOMAIN builds[p]

\* the events of the run of the given kind
Events(kind) == {k \in 1..Len(dep.log) : dep.log[k].ev = kind}

\* any failure before the purge is the last thing the run did; nothing is
\* created or uploaded on the server for a project whose build directory or
\* README.txt is missing; the purge is reached only when every selected
\* project was deployable and was uploaded; without both credentials no purge
\* is attempted
DeployStopsAtFailure ==
    /\ \A k \in 1..Len(dep.log) :
           (~dep.log[k].ok /\ dep.log[k].ev # "purge") =>
               k = Len(dep.log) /\ dep.pc = "failed"
    /\ \A k \in Events("mkdir") \cup Events("upload") : Deployable(dep.log[k].project)
    /\ (dep.pc \in {"purge", "done"} \/ Events("purge") # {}) =>
           /\ dep.selected # <<>>
           /\ \A i \in 1..Len(dep.selected) :
                  /\ Deployable(dep.selected[i])
                  /\ \E k \in Events("upload") :
                         dep.log[k].project = dep.selected[i] /\ dep.log[k].ok
    /\ dep.creds # "set" => Events("purge") = {}
    /\ (dep.pc = "done" /\ dep.creds # "set") => Events("purge-skipped") # {}

\* C29: a project whose build directory or README.txt is missing fails before
\* anything of it is uploaded and the failure ends the run, with no later
\* project deployed and no purge attempted; the purge is attempted only after
\* every selected project was uploaded and only with both credentials set;
\* and a purge that failed leaves the deploy a success
C29_DeployFailuresAndPurge ==
    /\ DeployStopsAtFailure
    /\ \A k \in Events("purge") : ~dep.log[k].ok => dep.pc = "done"

-----------------------------------------------------------------------------
(* publish.sh: pub.ran is the commands the script ran, in order, each with how
   it ended; the import, build and deploy commands are the runs modelled above *)

\* grep -E '\.(tsx|html)$' on a name of the listing of import/
grepMatch(f) ==
    \/ Len(f) >= 4 /\ SubSeq(f, Len(f) - 3, Len(f)) = <<".","t","s","x">>
    \/ Len(f) >= 5 /\ SubSeq(f, Len(f) - 4, Len(f)) = <<".","h","t","m","l">>

Ran(cmd, status) == [cmd |-> cmd, status |-> status]

\* Step 1: the test for files to import
PublishStart ==
    /\ pub.pc = "idle"
    /\ run = "idle"
    /\ dep.pc = "idle"
    /\ pub' = IF \E f \in DOMAIN importDir : grepMatch(f)
              THEN [pc |-> "import", ran |-> <<>>]
              ELSE [pc |-> "build", ran |-> <<Ran("import", "skipped")>>]
    /\ last' = NoStep
    /\ done' = <<>>
    /\ UNCHANGED <<fnVars, dep, importDir, projects, builds, run, queue, env, drops, edits, cwd>>

\* npm run import
PublishImport ==
    /\ pub.pc = "import"
    /\ \/ last = NoStep /\ StartImport
       \/ last = NoStep /\ ImportNothing
       \/ ProcessImport

\* set -e after npm run import
PublishImported ==
    /\ pub.pc = "import"
    /\ run = "idle"
    /\ last.op \in {"import", "import-none"}
    /\ LET failed == last.op = "import" /\ last.result.threw
       IN  pub' = [pc  |-> IF failed THEN "failed" ELSE "build",
                   ran |-> Append(pub.ran, Ran("import", IF failed THEN "failed" ELSE "ok"))]
    /\ last' = NoStep
    /\ done' = <<>>
    /\ UNCHANGED <<fnVars, dep, importDir, projects, builds, run, queue, env, drops, edits, cwd>>

\* Step 2: npm run build-all
PublishBuild ==
    /\ pub.pc = "build"
    /\ \/ last = NoStep /\ StartBuildAll
       \/ last = NoStep /\ BuildNothing
       \/ BuildProject

\* a script that goes on to deploy whatever the build's exit status was
PublishBuilt_noErrexit ==
    /\ pub.pc = "build"
    /\ run = "idle"
    /\ last.op \in {"build", "build-none"}
    /\ LET failed == last.op = "build" /\ last.threw
       IN  pub' = [pc  |-> "deploy",
                   ran |-> Append(pub.ran, Ran("build-all", IF failed THEN "failed" ELSE "ok"))]
    /\ last' = NoStep
    /\ done' = <<>>
    /\ UNCHANGED <<fnVars, dep, importDir, projects, builds, run, queue, env, drops, edits, cwd>>

\* set -e after npm run build-all
PublishBuilt ==
    /\ pub.pc = "build"
    /\ run = "idle"
    /\ last.op \in {"build", "build-none"}
    /\ LET failed == last.op = "build" /\ last.threw
       IN  pub' = [pc  |-> IF failed THEN "failed" ELSE "deploy",
                   ran |-> Append(pub.ran, Ran("build-all", IF failed THEN "failed" ELSE "ok"))]
    /\ last' = NoStep
    /\ done' = <<>>
    /\ UNCHANGED <<fnVars, dep, importDir, projects, builds, run, queue, env, drops, edits, cwd>>

\* Step 3: npm run deploy-all
PublishDeploy ==
    /\ pub.pc = "deploy"
    /\ \/ DeployStartWith(NONE)
       \/ DeployParent
       \/ DeployProject
       \/ DeployPurge

\* set -e after npm run deploy-all
PublishDeployed ==
    /\ pub.pc = "deploy"
    /\ dep.pc \in {"done", "failed"}
    /\ pub' = [pc  |-> IF dep.pc = "failed" THEN "failed" ELSE "git",
               ran |-> Append(pub.ran, Ran("deploy-all", IF dep.pc = "failed" THEN "failed" ELSE "ok"))]
    /\ UNCHANGED <<fnVars, fsVars, dep>>

\* Step 4: git status --porcelain prints something or nothing; git add, git
\* commit and git push each succeed or fail, and set -e stops at the first failure
PublishGit ==
    \E porcelain \in {"clean", "changes"}, add \in {"ok", "failed"}, commit \in {"ok", "failed"}, push \in {"ok", "failed"} :
        /\ pub.pc = "git"
        /\ LET cmds == IF porcelain = "clean"
                       THEN <<Ran("status", "clean"), Ran("commit", "skipped")>>
                       ELSE IF add = "failed"
                       THEN <<Ran("status", "changes"), Ran("add", add)>>
                       ELSE IF commit = "failed"
                       THEN <<Ran("status", "changes"), Ran("add", add), Ran("commit", commit)>>
                       ELSE <<Ran("status", "changes"), Ran("add", add), Ran("commit", commit),
                              Ran("push", push)>>
           IN  pub' = [pc  |-> IF cmds[Len(cmds)].status = "failed" THEN "failed" ELSE "done",
                       ran |-> pub.ran \o cmds]
        /\ UNCHANGED <<fnVars, fsVars, dep>>

FileDotHtml == ExtHtml

\* import/ before the script: empty, a file that is not imported, one or two
\* files to import, and a file that only the script's test takes for one
PublishImportDirs ==
    { EmptyDir,
      Put(EmptyDir, FileNotes, DocPlain),
      Put(EmptyDir, FileAbHtml, DocAb),
      Put(EmptyDir, FileABTsx, DocAb),
      Put(Put(EmptyDir, FileAbHtml, DocLabel), FileAbTsx, DocAB),
      Put(EmptyDir, FileDotHtml, DocPlain) }

InitPublish ==
    /\ FnIdle
    /\ ShIdle
    /\ importDir \in PublishImportDirs
    /\ projects \in BatchProjects
    /\ builds \in {EmptyDir, Put(EmptyDir, DirZz, BuildGood)}
    /\ run = "idle"
    /\ queue = <<>>
    /\ env = NONE
    /\ last = NoStep
    /\ drops = 0
    /\ edits = 0
    /\ cwd = {}
    /\ done = <<>>

NextPublish ==
    \/ PublishStart
    \/ PublishImport
    \/ PublishImported
    \/ PublishBuild
    \/ PublishBuilt
    \/ PublishDeploy
    \/ PublishDeployed
    \/ PublishGit

SpecPublish == InitPublish /\ [][NextPublish]_vars

\* the commands of a whole run, when git had changes and when it had none
AllCommands == <<"import", "build-all", "deploy-all", "status", "add", "commit", "push">>
AllCommandsClean == <<"import", "build-all", "deploy-all", "status", "commit">>

\* the names of the commands run so far
RanCommands == [k \in 1..Len(pub.ran) |-> pub.ran[k].cmd]

IsPrefix(s, t) == Len(s) <= Len(t) /\ s = SubSeq(t, 1, Len(s))

\* the commands ran in the order of the script, each after the one before it
\* had succeeded (or was skipped); a failed command is the last one and leaves
\* the script failed; the import, build and deploy runs are under way only in
\* their step; only the import and the commit are ever skipped, the commit
\* exactly when git status printed nothing
PublishOrder ==
    /\ IsPrefix(RanCommands, AllCommands) \/ IsPrefix(RanCommands, AllCommandsClean)
    /\ \A k \in 1..Len(pub.ran) :
           /\ pub.ran[k].status = "failed" => (k = Len(pub.ran) /\ pub.pc = "failed")
           /\ pub.ran[k].status = "skipped" => pub.ran[k].cmd \in {"import", "commit"}
           /\ pub.ran[k].cmd = "commit" =>
                  (pub.ran[k].status = "skipped" <=> pub.ran[k-1] = [cmd |-> "status", status |-> "clean"])
           /\ pub.ran[k].cmd = "add" => pub.ran[k-1] = [cmd |-> "status", status |-> "changes"]
    /\ pub.pc = "failed" => (pub.ran # <<>> /\ pub.ran[Len(pub.ran)].status = "failed")
    /\ pub.pc = "done" => Len(pub.ran) \in {5, 7}
    /\ (run = "import" \/ last.op \in {"import", "import-none"}) =>
           (pub.pc = "import" /\ pub.ran = <<>>)
    /\ (run = "build" \/ last.op \in {"build", "build-none"}) =>
           (pub.pc = "build" /\ Len(pub.ran) = 1)
    /\ dep.pc # "idle" => (Len(pub.ran) >= 2 /\ pub.ran[2] = [cmd |-> "build-all", status |-> "ok"])
    /\ dep.pc \notin {"idle", "done", "failed"} => (pub.pc = "deploy" /\ Len(pub.ran) = 2)
    /\ Len(pub.ran) >= 4 => dep.pc = "done"

\* C21: publish runs import, build-all, deploy-all, commit and push in this
\* order, each only after the one before it succeeded; a failed step is the
\* last thing that runs (nothing is deployed after a failed build, nothing is
\* committed or pushed after a failed deploy); the import is skipped exactly
\* when no name in import/ ends in .tsx or .html, the commit exactly when git
\* status reports nothing
C21_PublishOrder ==
    [][ /\ (pub.pc = "idle" /\ pub'.pc # "idle") =>
              ((pub'.ran = <<[cmd |-> "import", status |-> "skipped"]>>) <=>
                  ~ \E f \in DOMAIN importDir : \E n \in 0..Len(f) :
                        SubSeq(f, n + 1, Len(f)) \in {<<".","t","s","x">>, <<".","h","t","m","l">>})
        /\ importDir' # importDir => pub.pc = "import"
        /\ (builds' # builds \/ cwd' # cwd) => pub.pc = "build"
        /\ projects' # projects => pub.pc \in {"import", "build"}
        /\ dep' # dep => pub.pc = "deploy"
        /\ PublishOrder'
      ]_vars

\* the import ran, the build failed, and neither the deploy nor git was started
C21_Witness ==
    /\ pub.pc = "failed"
    /\ pub.ran = <<[cmd |-> "import", status |-> "ok"], [cmd |-> "build-all", status |-> "failed"]>>
    /\ dep = DepIdle
    /\ builds # EmptyDir

====
